---- MODULE Spec2Model ----
(***************************************************************************)
(* Knowledge-graph store (project_5/src/knowledge_graph.py) and the query  *)
(* dispatcher with its handlers (project_5/src/query_processor.py).        *)
(*                                                                         *)
(* Strings are TLA+ strings handled character by character (Len, SubSeq,   *)
(* \o), so str.lower, str.strip, str.replace, the `in` test and the        *)
(* regular expressions are computed, not assumed.                          *)
(***************************************************************************)
EXTENDS Integers, Sequences, FiniteSets, TLC

VARIABLES
    graph,              \* KnowledgeGraph.graph: nx.MultiDiGraph
    entity_types,       \* KnowledgeGraph.entity_types: defaultdict(set)
    entity_embeddings,  \* KnowledgeGraph.entity_embeddings: dict id -> vector
    file,               \* the snapshot file written by export_to_json
    ret,                \* the last call and what it returned or raised
    nbuild,             \* number of build_graph calls so far
    nimport,            \* number of import_from_json calls so far
    nexport,            \* number of export_to_json calls so far
    threads             \* the process_query calls running concurrently, per thread

vars == <<graph, entity_types, entity_embeddings, file, ret, nbuild, nimport, nexport, threads>>

(***************************************************************************)
(* Bounds of the model.                                                    *)
(***************************************************************************)
MaxBuilds == 2
MaxImports == 1
MaxExports == 1

(***************************************************************************)
(* Python str operations.                                                  *)
(***************************************************************************)
UpperChars == "ABCDEFGHIJKLMNOPQRSTUVWXYZ"
LowerChars == "abcdefghijklmnopqrstuvwxyz"
Whitespace == {" ", "\t", "\n", "\r"}

CharAt(s, i) == SubSeq(s, i, i)

From(s, i) == SubSeq(s, i, Len(s))

\* the lower-case letter of each upper-case letter
ToLower ==
    [c \in {CharAt(UpperChars, i) : i \in 1..Len(UpperChars)} |->
        CharAt(LowerChars, CHOOSE i \in 1..Len(UpperChars) : CharAt(UpperChars, i) = c)]

LowerChar(c) == IF c \in DOMAIN ToLower THEN ToLower[c] ELSE c

RECURSIVE lower(_)
lower(s) ==
    IF s = "" THEN "" ELSE LowerChar(CharAt(s, 1)) \o lower(From(s, 2))

RECURSIVE lstrip(_)
lstrip(s) ==
    IF s # "" /\ CharAt(s, 1) \in Whitespace THEN lstrip(From(s, 2)) ELSE s

RECURSIVE rstrip(_)
rstrip(s) ==
    IF s # "" /\ CharAt(s, Len(s)) \in Whitespace
    THEN rstrip(SubSeq(s, 1, Len(s) - 1))
    ELSE s

strip(s) == rstrip(lstrip(s))

\* s[i:i+len(w)] == w
HasAt(s, i, w) == i + Len(w) - 1 <= Len(s) /\ SubSeq(s, i, i + Len(w) - 1) = w

\* Python's `sub in s`
In(sub, s) == \E i \in 1..(Len(s) + 1) : HasAt(s, i, sub)

\* s.replace(old, new), old non-empty: non-overlapping occurrences, left to right
RECURSIVE replace(_, _, _)
replace(s, old, new) ==
    IF Len(s) < Len(old) THEN s
    ELSE IF HasAt(s, 1, old) THEN new \o replace(From(s, Len(old) + 1), old, new)
    ELSE CharAt(s, 1) \o replace(From(s, 2), old, new)

(***************************************************************************)
(* nx.MultiDiGraph: nodes in insertion order, one attribute dict per node, *)
(* and the edges in insertion order, each with its own data dict.          *)
(***************************************************************************)
NoAttrs == [k \in {} |-> k]

EmptyGraph == [nodes |-> <<>>, attrs |-> NoAttrs, edges |-> <<>>]

Range(seq) == {seq[i] : i \in 1..Len(seq)}

HasNode(g, n) == n \in Range(g.nodes)

\* G.add_node(n, **kv): a new node is appended, an existing one has kv merged in
add_node(g, n, kv) ==
    IF HasNode(g, n)
    THEN [g EXCEPT !.attrs[n] = kv @@ @]
    ELSE [g EXCEPT !.nodes = Append(@, n), !.attrs = (n :> kv) @@ @]

\* the add_edge of a simple DiGraph: a second edge u -> v overwrites the first
add_edge_simple(g, u, v, data) ==
    LET g1 == IF HasNode(g, u) THEN g ELSE add_node(g, u, NoAttrs)
        g2 == IF HasNode(g1, v) THEN g1 ELSE add_node(g1, v, NoAttrs)
        old == {i \in 1..Len(g2.edges) : g2.edges[i].source = u /\ g2.edges[i].target = v}
    IN  IF old = {}
        THEN [g2 EXCEPT !.edges = Append(@, [source |-> u, target |-> v, data |-> data])]
        ELSE [g2 EXCEPT !.edges = [i \in 1..Len(@) |->
                                      IF i \in old THEN [@[i] EXCEPT !.data = data] ELSE @[i]]]

\* G.add_edge(u, v, **data): always a new parallel edge; missing endpoints are
\* created without attributes
add_edge(g, u, v, data) ==
    LET g1 == IF HasNode(g, u) THEN g ELSE add_node(g, u, NoAttrs)
        g2 == IF HasNode(g1, v) THEN g1 ELSE add_node(g1, v, NoAttrs)
    IN  [g2 EXCEPT !.edges = Append(@, [source |-> u, target |-> v, data |-> data])]

number_of_nodes(g) == Len(g.nodes)

number_of_edges(g) == Len(g.edges)

has_edge(g, u, v) == \E i \in 1..Len(g.edges) : g.edges[i].source = u /\ g.edges[i].target = v

\* the indices of the edges selected by P, in insertion order
RECURSIVE SelectIdx(_, _, _)
SelectIdx(g, i, keep) ==
    IF i > Len(g.edges) THEN <<>>
    ELSE (IF i \in keep THEN <<i>> ELSE <<>>) \o SelectIdx(g, i + 1, keep)

OutIdx(g, n) == SelectIdx(g, 1, {i \in 1..Len(g.edges) : g.edges[i].source = n})

InIdx(g, n) == SelectIdx(g, 1, {i \in 1..Len(g.edges) : g.edges[i].target = n})

\* the distinct values of a sequence in order of first appearance (dict key order)
RECURSIVE Distinct(_)
Distinct(seq) ==
    IF seq = <<>> THEN <<>>
    ELSE LET rest == Distinct(SubSeq(seq, 1, Len(seq) - 1))
             x == seq[Len(seq)]
         IN  IF x \in Range(rest) THEN rest ELSE Append(rest, x)

\* G.successors(n), G.predecessors(n): adjacency keys in insertion order
successors(g, n) == Distinct([k \in 1..Len(OutIdx(g, n)) |-> g.edges[OutIdx(g, n)[k]].target])

predecessors(g, n) == Distinct([k \in 1..Len(InIdx(g, n)) |-> g.edges[InIdx(g, n)[k]].source])

\* G.degree(n) of a multigraph: in-degree plus out-degree, parallel edges counted
degree(g, n) == Len(OutIdx(g, n)) + Len(InIdx(g, n))

\* G.out_edges(n) / G.in_edges(n): grouped by neighbour in adjacency order, the
\* parallel edges of one neighbour in key order
RECURSIVE Concat(_)
Concat(seqs) == IF seqs = <<>> THEN <<>> ELSE Head(seqs) \o Concat(Tail(seqs))

EdgesBetween(g, u, v) ==
    SelectIdx(g, 1, {i \in 1..Len(g.edges) : g.edges[i].source = u /\ g.edges[i].target = v})

out_edges(g, n) ==
    LET succ == successors(g, n)
        idx == Concat([k \in 1..Len(succ) |-> EdgesBetween(g, n, succ[k])])
    IN  [k \in 1..Len(idx) |-> g.edges[idx[k]]]

in_edges(g, n) ==
    LET pred == predecessors(g, n)
        idx == Concat([k \in 1..Len(pred) |-> EdgesBetween(g, pred[k], n)])
    IN  [k \in 1..Len(idx) |-> g.edges[idx[k]]]

\* dict.get(key, default)
Get(d, key, default) == IF key \in DOMAIN d THEN d[key] ELSE default

(***************************************************************************)
(* KnowledgeGraph: construction.                                           *)
(***************************************************************************)
EmptyTypes == [keys |-> <<>>, sets |-> NoAttrs]

\* self.entity_types[t].add(e) on a defaultdict(set)
TypesAdd(types, t, e) ==
    IF t \in Range(types.keys)
    THEN [types EXCEPT !.sets[t] = @ \cup {e}]
    ELSE [keys |-> Append(types.keys, t), sets |-> (t :> {e}) @@ types.sets]

\* _add_entities, one entity of one bucket
AddEntity(st, entity_type, entity) ==
    [st EXCEPT !.graph = add_node(@, entity, [type |-> entity_type]),
               !.entity_types = TypesAdd(@, entity_type, entity)]

RECURSIVE AddEntityList(_, _, _, _)
AddEntityList(st, entity_type, entity_list, i) ==
    IF i > Len(entity_list) THEN st
    ELSE AddEntityList(AddEntity(st, entity_type, entity_list[i]), entity_type, entity_list, i + 1)

\* _add_entities: entities is the dict type -> list, as its items in order
RECURSIVE _add_entities(_, _, _)
_add_entities(st, entities, i) ==
    IF i > Len(entities) THEN st
    ELSE _add_entities(AddEntityList(st, entities[i][1], entities[i][2], 1), entities, i + 1)

RelKeys == <<"source", "target", "relation">>

\* rel['source'], rel['target'], rel['relation'] raise KeyError on a missing key
WellFormed(rel) == \A k \in Range(RelKeys) : k \in DOMAIN rel

\* the loop body with the membership tests dropped: both endpoints are always
\* written as ENTITY nodes
AddRelationshipRetyping(g, rel) ==
    LET g1 == add_node(g, rel.source, [type |-> "ENTITY"])
        g2 == add_node(g1, rel.target, [type |-> "ENTITY"])
    IN  add_edge(g2, rel.source, rel.target,
                 [relation |-> rel.relation, context |-> Get(rel, "context", "")])

\* the body of the loop of _add_relationships for one well-formed record
AddRelationship(g, rel) ==
    LET g1 == IF ~HasNode(g, rel.source) THEN add_node(g, rel.source, [type |-> "ENTITY"]) ELSE g
        g2 == IF ~HasNode(g1, rel.target) THEN add_node(g1, rel.target, [type |-> "ENTITY"]) ELSE g1
    IN  add_edge(g2, rel.source, rel.target,
                 [relation |-> rel.relation, context |-> Get(rel, "context", "")])

\* _add_relationships: the loop stops at the first record whose key lookup raises
RECURSIVE _add_relationships(_, _, _)
_add_relationships(st, relationships, i) ==
    IF i > Len(relationships) THEN st
    ELSE IF ~WellFormed(relationships[i]) THEN [st EXCEPT !.raised = "KeyError"]
    ELSE _add_relationships([st EXCEPT !.graph = AddRelationship(@, relationships[i])],
                            relationships, i + 1)

\* _add_entity_contexts: entity_contexts is the dict entity -> contexts, as its items
RECURSIVE _add_entity_contexts(_, _, _)
_add_entity_contexts(st, entity_contexts, i) ==
    IF i > Len(entity_contexts) THEN st
    ELSE LET entity == entity_contexts[i][1]
             st1 == IF HasNode(st.graph, entity)
                    THEN [st EXCEPT !.graph.attrs[entity] = [contexts |-> entity_contexts[i][2]] @@ @]
                    ELSE st
         IN  _add_entity_contexts(st1, entity_contexts, i + 1)

(***************************************************************************)
(* KnowledgeGraph: metrics.  A degree centrality is the exact fraction     *)
(* <<numerator, denominator>>.  PageRank and betweenness are floating      *)
(* point results of networkx; the model keeps, in their place, the size    *)
(* <<nodes, edges>> of the graph they were computed on.                    *)
(***************************************************************************)
BetweennessGate == 1000

\* nx.degree_centrality: 1 for every node of a graph of at most one node,
\* degree / (n - 1) otherwise
degree_centrality(g, n) ==
    IF number_of_nodes(g) <= 1 THEN <<1, 1>> ELSE <<degree(g, n), number_of_nodes(g) - 1>>

\* the metrics of one node with the size test written as <=
MetricsOfGateInclusive(g, n) ==
    LET size == <<number_of_nodes(g), number_of_edges(g)>>
        base == [degree_centrality |-> degree_centrality(g, n), pagerank |-> size]
    IN  IF number_of_nodes(g) <= BetweennessGate
        THEN [betweenness_centrality |-> size] @@ base
        ELSE base

\* what one complete pass of _calculate_metrics writes into node n.  PageRank
\* and betweenness values are kept as the size of the graph they were computed
\* on, which tells a value of this pass from one of an earlier pass
MetricsOf(g, n) ==
    LET size == <<number_of_nodes(g), number_of_edges(g)>>
        base == [degree_centrality |-> degree_centrality(g, n), pagerank |-> size]
    IN  IF number_of_nodes(g) < BetweennessGate
        THEN [betweenness_centrality |-> size] @@ base
        ELSE base

\* _calculate_metrics
_calculate_metrics(g) ==
    IF number_of_nodes(g) > 0
    THEN [g EXCEPT !.attrs = [n \in DOMAIN g.attrs |-> MetricsOf(g, n) @@ g.attrs[n]]]
    ELSE g

\* build_graph: the KeyError of _add_relationships propagates, so the contexts
\* and the metrics pass are not reached
build_graph(st, extraction_results) ==
    LET st1 == _add_entities(st, extraction_results.entities, 1)
        st2 == _add_relationships(st1, extraction_results.relationships, 1)
        st3 == IF "entity_contexts" \in DOMAIN extraction_results
               THEN _add_entity_contexts(st2, extraction_results.entity_contexts, 1)
               ELSE st2
    IN  IF st2.raised # "" THEN st2
        ELSE [st3 EXCEPT !.graph = _calculate_metrics(@)]

\* _calculate_metrics when nx.pagerank raises (NetworkXNotImplemented for a
\* multigraph in networkx releases before 2.6, PowerIterationFailedConvergence):
\* the degree_centrality loop has already written its attributes, the bare
\* except ends the pass, and nothing is undone
_calculate_metrics_pagerank_raises(g) ==
    IF number_of_nodes(g) > 0
    THEN [g EXCEPT !.attrs = [n \in DOMAIN g.attrs |->
                                 [degree_centrality |-> degree_centrality(g, n)] @@ g.attrs[n]]]
    ELSE g

\* build_graph in a run where nx.pagerank raises
build_graph_pagerank_raises(st, extraction_results) ==
    LET st1 == _add_entities(st, extraction_results.entities, 1)
        st2 == _add_relationships(st1, extraction_results.relationships, 1)
        st3 == IF "entity_contexts" \in DOMAIN extraction_results
               THEN _add_entity_contexts(st2, extraction_results.entity_contexts, 1)
               ELSE st2
    IN  IF st2.raised # "" THEN st2
        ELSE [st3 EXCEPT !.graph = _calculate_metrics_pagerank_raises(@)]

(***************************************************************************)
(* KnowledgeGraph: reads.                                                  *)
(***************************************************************************)
\* all directed paths of exactly k edges from s to t
RECURSIVE WalksOfLen(_, _, _, _)
WalksOfLen(g, s, t, k) ==
    IF k = 0 THEN (IF s = t THEN {<<s>>} ELSE {})
    ELSE UNION {{<<s>> \o p : p \in WalksOfLen(g, v, t, k - 1)} : v \in Range(successors(g, s))}

RECURSIVE MinWalks(_, _, _, _)
MinWalks(g, s, t, k) ==
    IF k >= number_of_nodes(g) THEN {}
    ELSE IF WalksOfLen(g, s, t, k) # {} THEN WalksOfLen(g, s, t, k)
    ELSE MinWalks(g, s, t, k + 1)

\* Python's None, for a path and for an entity id (the handlers test both with `not`)
NoPath == <<>>
None == ""

\* a shortest path that ignores the direction of the edges
get_shortest_path_undirected(g, source, target) ==
    LET back == [i \in 1..Len(g.edges) |->
                    [source |-> g.edges[i].target, target |-> g.edges[i].source,
                     data |-> g.edges[i].data]]
        sym == [g EXCEPT !.edges = g.edges \o back]
    IN  IF ~HasNode(g, source) \/ ~HasNode(g, target) THEN {NoPath}
        ELSE IF MinWalks(sym, source, target, 0) = {} THEN {NoPath}
        ELSE MinWalks(sym, source, target, 0)

\* get_shortest_path: the values nx.shortest_path can return, {NoPath} when it
\* raises NodeNotFound or NetworkXNoPath.  The bidirectional search returns one
\* minimum-hop path; which one among several is left open.
get_shortest_path(g, source, target) ==
    IF ~HasNode(g, source) \/ ~HasNode(g, target) THEN {NoPath}
    ELSE IF MinWalks(g, source, target, 0) = {} THEN {NoPath}
    ELSE MinWalks(g, source, target, 0)

EdgeEntry(key, e) ==
    (key :> e[key]) @@ [relation |-> Get(e.data, "relation", "related_to")]

\* get_entity_info; the empty dict is returned for an unknown entity
get_entity_info(g, entity) ==
    IF ~HasNode(g, entity) THEN NoAttrs
    ELSE [name |-> entity,
          attributes |-> g.attrs[entity],
          incoming_edges |-> [k \in 1..Len(in_edges(g, entity)) |->
                                 EdgeEntry("source", in_edges(g, entity)[k])],
          outgoing_edges |-> [k \in 1..Len(out_edges(g, entity)) |->
                                 EdgeEntry("target", out_edges(g, entity)[k])],
          neighbors |-> successors(g, entity)]

\* one round of get_subgraph that follows outgoing edges only
SubgraphRoundSuccessors(g, subgraph_nodes) ==
    subgraph_nodes \cup
    UNION {Range(successors(g, node)) : node \in {n \in subgraph_nodes : HasNode(g, n)}}

\* one round of the loop of get_subgraph: the predecessors and successors of
\* every member that is a node are added
SubgraphRound(g, subgraph_nodes) ==
    subgraph_nodes \cup
    UNION {Range(predecessors(g, node)) \cup Range(successors(g, node)) :
               node \in {n \in subgraph_nodes : HasNode(g, n)}}

RECURSIVE SubgraphNodes(_, _, _)
SubgraphNodes(g, subgraph_nodes, depth) ==
    IF depth <= 0 THEN subgraph_nodes
    ELSE SubgraphNodes(g, SubgraphRound(g, subgraph_nodes), depth - 1)

\* G.subgraph(nbunch): the nodes of nbunch that are in G, with their attributes,
\* and every edge, parallel ones included, whose two endpoints are among them
subgraph(g, nbunch) ==
    LET kept == SelectSeq(g.nodes, LAMBDA n : n \in nbunch)
    IN  [nodes |-> kept,
         attrs |-> [n \in Range(kept) |-> g.attrs[n]],
         edges |-> SelectSeq(g.edges, LAMBDA e : e.source \in nbunch /\ e.target \in nbunch)]

\* get_subgraph(nodes, depth); nodes is the set made of the list handed in
get_subgraph(g, nodes, depth) == subgraph(g, SubgraphNodes(g, nodes, depth))

(***************************************************************************)
(* Embeddings.  The sentence-transformer model is a black box text ->      *)
(* vector.  The model takes unit vectors in the plane at multiples of 30   *)
(* degrees, named by their angle index 0..11, so that a cosine similarity  *)
(* is one of 1, 0.866, 0.5, 0, -0.5, -0.866, -1, kept in thousandths.      *)
(***************************************************************************)
Angles == 12

CosThousandths == <<1000, 866, 500, 0, -500, -866, -1000>>

\* sklearn's cosine_similarity of two of these vectors
cosine_similarity(a, b) ==
    LET d == IF a >= b THEN a - b ELSE b - a
    IN  CosThousandths[(IF d > Angles - d THEN Angles - d ELSE d) + 1]

\* model.encode([text])[0]: the vector of each text the model embeds.  The word
\* "connected" lies 30 degrees from Bob; every other text that is not an entity
\* id lies 30 degrees from Ted and exactly 60 degrees from Acme.
encode(text) ==
    CASE text = "Alice" -> 0
      [] text = "Bob" -> 2
      [] text = "Acme" -> 5
      [] text = "Ted" -> 8
      [] text = "Apple" -> 10
      [] text = "Apple Inc" -> 11
      [] text = "connected" -> 3
      [] OTHER -> 7

EmbKeys(emb) == [i \in 1..Len(emb) |-> emb[i].entity]

\* self.entity_embeddings[entity] = embedding: a dict assignment
EmbSet(emb, entity, vec) ==
    IF entity \in Range(EmbKeys(emb))
    THEN [i \in 1..Len(emb) |-> IF emb[i].entity = entity THEN [emb[i] EXCEPT !.vec = vec] ELSE emb[i]]
    ELSE Append(emb, [entity |-> entity, vec |-> vec])

RECURSIVE EmbSetAll(_, _, _)
EmbSetAll(emb, entities, i) ==
    IF i > Len(entities) THEN emb
    ELSE EmbSetAll(EmbSet(emb, entities[i], encode(entities[i])), entities, i + 1)

\* generate_embeddings: every current node is (re)assigned; no key is removed
generate_embeddings(g, emb) == EmbSetAll(emb, g.nodes, 1)

\* list.sort(key=score, reverse=True): stable, descending
RECURSIVE InsertDesc(_, _)
InsertDesc(sorted, x) ==
    IF sorted = <<>> THEN <<x>>
    ELSE IF Head(sorted).score >= x.score THEN <<Head(sorted)>> \o InsertDesc(Tail(sorted), x)
    ELSE <<x>> \o sorted

RECURSIVE SortDesc(_, _)
SortDesc(seq, i) ==
    IF i = 0 THEN <<>> ELSE InsertDesc(SortDesc(seq, i - 1), seq[i])

Take(seq, k) == SubSeq(seq, 1, IF Len(seq) < k THEN Len(seq) ELSE k)

Filter(seq, keep) ==
    LET idx == SelectIdx([edges |-> seq], 1, {i \in 1..Len(seq) : keep[i]})
    IN  [k \in 1..Len(idx) |-> seq[idx[k]]]

\* the (entity, similarity) list of all indexed entities against one vector
Similarities(emb, vec) ==
    [i \in 1..Len(emb) |-> [entity |-> emb[i].entity, score |-> cosine_similarity(vec, emb[i].vec)]]

\* a lookup that returns the whole ranking, whatever top_k is
find_similar_entities_untruncated(emb, entity, top_k) ==
    IF entity \notin Range(EmbKeys(emb)) THEN <<>>
    ELSE LET similarities == Similarities(emb, encode(entity))
         IN  SortDesc(similarities, Len(similarities))

\* find_similar_entities
find_similar_entities(emb, entity, top_k) ==
    IF entity \notin Range(EmbKeys(emb)) THEN <<>>
    ELSE LET vec == emb[CHOOSE i \in 1..Len(emb) : emb[i].entity = entity].vec
             all == Similarities(emb, vec)
             others == Filter(all, [i \in 1..Len(all) |-> all[i].entity # entity])
         IN  Take(SortDesc(others, Len(others)), top_k)

(***************************************************************************)
(* Statistics, export and import.                                          *)
(***************************************************************************)
\* the weakly connected component of n
RECURSIVE WeakReach(_, _, _)
WeakReach(g, R, k) ==
    IF k = 0 THEN R
    ELSE WeakReach(g, R \cup {g.edges[i].target : i \in {j \in 1..Len(g.edges) : g.edges[j].source \in R}}
                        \cup {g.edges[i].source : i \in {j \in 1..Len(g.edges) : g.edges[j].target \in R}},
                   k - 1)

number_weakly_connected_components(g) ==
    Cardinality({WeakReach(g, {n}, number_of_nodes(g)) : n \in Range(g.nodes)})

\* nx.density of a directed graph: m / (n (n - 1)), 0 without edges or with n <= 1
density(g) ==
    IF number_of_edges(g) = 0 \/ number_of_nodes(g) <= 1 THEN <<0, 1>>
    ELSE <<number_of_edges(g), number_of_nodes(g) * (number_of_nodes(g) - 1)>>

TopK == 10

\* get_graph_statistics: nx.is_weakly_connected raises NetworkXPointlessConcept on
\* the null graph.  top_entities is the set of the nodes ranked: the ranking by
\* PageRank is not modelled, and a graph of at most TopK nodes lists them all.
get_graph_statistics(g, types) ==
    IF number_of_nodes(g) = 0
    THEN [raised |-> "NetworkXPointlessConcept", val |-> None]
    ELSE [raised |-> "",
          val |-> [num_nodes |-> number_of_nodes(g),
                   num_edges |-> number_of_edges(g),
                   density |-> density(g),
                   is_connected |-> number_weakly_connected_components(g) = 1,
                   num_components |-> number_weakly_connected_components(g),
                   entity_types |-> [t \in Range(types.keys) |-> Cardinality(types.sets[t])],
                   top_entities |-> IF number_of_nodes(g) <= TopK THEN Range(g.nodes)
                                    ELSE {"<top by pagerank>"}]]

\* G.edges(data=True): per node in node order, its out-edges
all_edges(g) == Concat([k \in 1..Len(g.nodes) |-> out_edges(g, g.nodes[k])])

\* export_to_json: the snapshot written to the file.  Every value of the model
\* (strings, numbers, lists, dicts with string keys) is JSON-native, so
\* json.dump followed by json.load gives it back unchanged.
export_to_json(g, types) ==
    LET stats == get_graph_statistics(g, types)
    IN  IF stats.raised # "" THEN [raised |-> stats.raised, val |-> None]
        ELSE [raised |-> "",
              val |-> [nodes |-> [k \in 1..Len(g.nodes) |->
                                     g.attrs[g.nodes[k]] @@ [id |-> g.nodes[k], label |-> g.nodes[k]]],
                       edges |-> [k \in 1..Len(all_edges(g)) |->
                                     [source |-> all_edges(g)[k].source,
                                      target |-> all_edges(g)[k].target,
                                      relation |-> Get(all_edges(g)[k].data, "relation", "related_to"),
                                      context |-> Get(all_edges(g)[k].data, "context", "")]],
                       statistics |-> stats.val]]

Without(d, key) == [k \in DOMAIN d \ {key} |-> d[k]]

RECURSIVE ImportNodes(_, _, _)
ImportNodes(g, nodes, i) ==
    IF i > Len(nodes) THEN g
    ELSE ImportNodes(add_node(g, nodes[i].id, Without(nodes[i], "id")), nodes, i + 1)

\* an import that keeps one edge per ordered pair of endpoints
RECURSIVE ImportEdgesMerged(_, _, _)
ImportEdgesMerged(g, edges, i) ==
    IF i > Len(edges) THEN g
    ELSE ImportEdgesMerged(add_edge_simple(g, edges[i].source, edges[i].target,
                                           [relation |-> Get(edges[i], "relation", "related_to"),
                                            context |-> Get(edges[i], "context", "")]),
                           edges, i + 1)

RECURSIVE ImportEdges(_, _, _)
ImportEdges(g, edges, i) ==
    IF i > Len(edges) THEN g
    ELSE ImportEdges(add_edge(g, edges[i].source, edges[i].target,
                              [relation |-> Get(edges[i], "relation", "related_to"),
                               context |-> Get(edges[i], "context", "")]),
                     edges, i + 1)

\* import_from_json: self.graph.clear(), then the nodes, then the edges;
\* entity_types and entity_embeddings are not touched
import_from_json(graph_data) ==
    ImportEdges(ImportNodes(EmptyGraph, graph_data.nodes, 1), graph_data.edges, 1)

(***************************************************************************)
(* Regular expressions of the query processor.  A pattern is a sequence of *)
(* elements: an alternation of literal strings, or the wildcard group.    *)
(***************************************************************************)
Lit(w) == [any |-> FALSE, alt |-> {w}]

Alt(ws) == [any |-> FALSE, alt |-> ws]

Wild == [any |-> TRUE, alt |-> {}]

\* `.` matches every character but the newline
NoNewline(s) == ~In("\n", s)

\* the elements k.. of the pattern match s from position i on
RECURSIVE MatchFrom(_, _, _, _)
MatchFrom(pat, k, s, i) ==
    IF k > Len(pat) THEN TRUE
    ELSE IF pat[k].any
    THEN \E j \in i..(Len(s) + 1) : NoNewline(SubSeq(s, i, j - 1)) /\ MatchFrom(pat, k + 1, s, j)
    ELSE \E w \in pat[k].alt : HasAt(s, i, w) /\ MatchFrom(pat, k + 1, s, i + Len(w))

\* re.search(pattern, s) is not None
search(pat, s) == \E i \in 1..(Len(s) + 1) : MatchFrom(pat, 1, s, i)

\* the leftmost match of an alternation of literals (w1|w2|...), the first
\* alternative winning at one position; pos = 0 when there is none
FirstMatch(s, words) ==
    LET hits == {i \in 1..Len(s) : \E k \in 1..Len(words) : HasAt(s, i, words[k])}
    IN  IF hits = {} THEN [pos |-> 0, word |-> ""]
        ELSE LET pos == CHOOSE i \in hits : \A j \in hits : i <= j
                 k == CHOOSE a \in 1..Len(words) :
                          /\ HasAt(s, pos, words[a])
                          /\ \A b \in 1..(a - 1) : ~HasAt(s, pos, words[b])
             IN  [pos |-> pos, word |-> words[k]]

\* re.split(r'(w1|w2)', s)[-1]: what follows the last of the successive matches
RECURSIVE SplitLast(_, _)
SplitLast(s, words) ==
    LET m == FirstMatch(s, words)
    IN  IF m.pos = 0 THEN s ELSE SplitLast(From(s, m.pos + Len(m.word)), words)

WordChars == "abcdefghijklmnopqrstuvwxyzABCDEFGHIJKLMNOPQRSTUVWXYZ0123456789_"

WordCharSet == {CharAt(WordChars, i) : i \in 1..Len(WordChars)}

IsWordChar(c) == c \in WordCharSet

\* the longest run of word characters at the start of s: the group of (\w+)
RECURSIVE WordPrefix(_)
WordPrefix(s) ==
    IF s # "" /\ IsWordChar(CharAt(s, 1)) THEN CharAt(s, 1) \o WordPrefix(From(s, 2)) ELSE ""

\* s.split()[0] of a string that is not all whitespace
RECURSIVE NonSpacePrefix(_)
NonSpacePrefix(s) ==
    IF s # "" /\ CharAt(s, 1) \notin Whitespace THEN CharAt(s, 1) \o NonSpacePrefix(From(s, 2)) ELSE ""

FirstToken(s) == NonSpacePrefix(lstrip(s))

\* the upper-case letter of each lower-case letter
ToUpper ==
    [c \in {CharAt(LowerChars, i) : i \in 1..Len(LowerChars)} |->
        CharAt(UpperChars, CHOOSE i \in 1..Len(LowerChars) : CharAt(LowerChars, i) = c)]

UpperChar(c) == IF c \in DOMAIN ToUpper THEN ToUpper[c] ELSE c

RECURSIVE upper(_)
upper(s) ==
    IF s = "" THEN "" ELSE UpperChar(CharAt(s, 1)) \o upper(From(s, 2))

\* sep.join(parts)
RECURSIVE Join(_, _)
Join(parts, sep) ==
    IF parts = <<>> THEN ""
    ELSE IF Len(parts) = 1 THEN parts[1]
    ELSE parts[1] \o sep \o Join(Tail(parts), sep)

(***************************************************************************)
(* QueryProcessor: the pattern table and the entity resolver.              *)
(***************************************************************************)
query_patterns == <<
    [pattern |-> <<Lit("what are the "), Alt({"main", "key", "important", "top"}), Lit(" "),
                   Alt({"topics", "concepts", "entities"})>>,
     handler |-> "_get_main_topics"],
    [pattern |-> <<Lit("how "), Alt({"is", "are"}), Lit(" "), Wild, Lit(" "),
                   Alt({"related", "connected"}), Lit(" to "), Wild>>,
     handler |-> "_find_relationship"],
    [pattern |-> <<Lit("what "), Alt({"is", "are"}), Lit(" "), Wild>>,
     handler |-> "_get_entity_info"],
    [pattern |-> <<Alt({"find", "show", "list"}), Lit(" all "), Wild, Lit(" "),
                   Alt({"entities", "concepts", "topics"})>>,
     handler |-> "_find_entities_by_type"],
    [pattern |-> <<Alt({"shortest", "best"}), Lit(" "), Alt({"path", "route", "connection"}),
                   Lit(" "), Alt({"from", "between"}), Lit(" "), Wild, Lit(" "),
                   Alt({"to", "and"}), Lit(" "), Wild>>,
     handler |-> "_find_path"],
    [pattern |-> <<Alt({"similar", "related"}), Lit(" to "), Wild>>,
     handler |-> "_find_similar"],
    [pattern |-> <<Alt({"neighbors", "connections"}), Lit(" of "), Wild>>,
     handler |-> "_get_neighbors"],
    [pattern |-> <<Alt({"statistics", "stats", "summary", "overview"})>>,
     handler |-> "_get_statistics"],
    [pattern |-> <<Lit("most "), Alt({"important", "central", "connected"}), Lit(" "),
                   Alt({"entities", "nodes", "concepts"})>>,
     handler |-> "_get_most_important"],
    [pattern |-> <<Alt({"cluster", "group", "community"})>>,
     handler |-> "_find_communities"]
>>

SimilarityThreshold == 500

\* the loop with the threshold itself accepted
RECURSIVE BestMatchAtThreshold(_, _, _, _)
BestMatchAtThreshold(sims, i, best_match, best_similarity) ==
    IF i > Len(sims) THEN best_match
    ELSE IF sims[i].score > best_similarity /\ sims[i].score >= SimilarityThreshold
    THEN BestMatchAtThreshold(sims, i + 1, sims[i].entity, sims[i].score)
    ELSE BestMatchAtThreshold(sims, i + 1, best_match, best_similarity)

\* the loop of _find_best_match over the indexed entities
RECURSIVE BestMatch(_, _, _, _)
BestMatch(sims, i, best_match, best_similarity) ==
    IF i > Len(sims) THEN best_match
    ELSE IF sims[i].score > best_similarity /\ sims[i].score > SimilarityThreshold
    THEN BestMatch(sims, i + 1, sims[i].entity, sims[i].score)
    ELSE BestMatch(sims, i + 1, best_match, best_similarity)

MinOf(S) == CHOOSE i \in S : \A j \in S : i <= j

\* _find_best_match: the id found (or None) and the embedding index, which the
\* third tier generates when it is empty
_find_best_match(g, emb, text) ==
    LET text_lower == strip(lower(text))
        exact == {i \in 1..Len(g.nodes) : lower(g.nodes[i]) = text_lower}
        partial == {i \in 1..Len(g.nodes) :
                       In(text_lower, lower(g.nodes[i])) \/ In(lower(g.nodes[i]), text_lower)}
        emb1 == IF emb = <<>> THEN generate_embeddings(g, emb) ELSE emb
    IN  IF exact # {} THEN [id |-> g.nodes[MinOf(exact)], emb |-> emb]
        ELSE IF partial # {} THEN [id |-> g.nodes[MinOf(partial)], emb |-> emb]
        ELSE [id |-> BestMatch(Similarities(emb1, encode(text)), 1, None, 0), emb |-> emb1]

(***************************************************************************)
(* QueryProcessor: the handlers.  A handler yields the set of its possible *)
(* outcomes: what it returns or raises, the embedding index it leaves      *)
(* (the resolver and three handlers generate it when it is empty) and the  *)
(* ids the resolver gave it.                                               *)
(***************************************************************************)
EmptyDict == NoAttrs

NoHint == ""

Out(answer_parts, data, hint, emb, resolved) ==
    [raised |-> "", answer |-> Join(answer_parts, "\n"), data |-> data, hint |-> hint,
     emb |-> emb, resolved |-> resolved]

Exc(exc, emb, resolved) ==
    [raised |-> exc, answer |-> "", data |-> EmptyDict, hint |-> NoHint,
     emb |-> emb, resolved |-> resolved]

NodeType(g, n) == Get(g.attrs[n], "type", "ENTITY")

MaxTopics == 20

\* _get_main_topics.  The ranking by PageRank is not modelled: a graph of at
\* most MaxTopics nodes has all its nodes among the topics, grouped by type.
_get_main_topics(g, emb) ==
    IF number_of_nodes(g) = 0
    THEN {Out(<<"The knowledge graph is empty.">>, <<>>, NoHint, emb, <<>>)}
    ELSE LET shown == IF number_of_nodes(g) <= MaxTopics THEN Range(g.nodes)
                      ELSE {"<top by pagerank>"}
             kinds == {NodeType(g, n) : n \in Range(g.nodes)}
         IN  {Out(<<"The main topics and concepts in the knowledge graph are:",
                    "<topics by type, ranked by pagerank>">>,
                  [topics |-> [t \in kinds |->
                                  {[name |-> n, connections |-> degree(g, n)] :
                                      n \in {x \in shown \cap Range(g.nodes) : NodeType(g, x) = t}}],
                   total_topics |-> IF number_of_nodes(g) <= MaxTopics
                                    THEN number_of_nodes(g) ELSE MaxTopics],
                  "main_topics", emb, <<>>)}

\* lines 150-159: `for _, _, data in self.graph.edges(a, keys=True, data=True)`
\* unpacks the 4-tuples (u, v, key, data) into three names, which raises
\* ValueError at the first edge leaving a; has_edge(a, b) makes that edge exist
DirectRelations(g, a, b) ==
    IF has_edge(g, a, b) /\ out_edges(g, a) # <<>>
    THEN [raised |-> "ValueError", relations |-> <<>>]
    ELSE [raised |-> "", relations |-> <<>>]

\* the relation label of the hop u -> v: the data of the first of the parallel edges
HopRelation(g, u, v) == Get(g.edges[EdgesBetween(g, u, v)[1]].data, "relation", "connected to")

PathLines(g, path) ==
    [i \in 1..(Len(path) - 1) |->
        "  " \o path[i] \o " --[" \o HopRelation(g, path[i], path[i + 1]) \o "]--> " \o path[i + 1]]

\* _find_relationship
_find_relationship(g, emb, query) ==
    LET m == FirstMatch(query, <<"related to", "connected to">>)
        parts0 == SubSeq(query, 1, m.pos - 1)
        parts1 == SubSeq(m.word, 1, Len(m.word) - Len(" to"))
        entity1_part == strip(replace(replace(parts0, "how is", ""), "how are", ""))
        entity2_part == strip(parts1)
        r1 == _find_best_match(g, emb, entity1_part)
        r2 == _find_best_match(g, r1.emb, entity2_part)
        entity1 == r1.id
        entity2 == r2.id
        resolved == <<[text |-> entity1_part, id |-> entity1],
                      [text |-> entity2_part, id |-> entity2]>>
        forward == DirectRelations(g, entity1, entity2)
        reverse == DirectRelations(g, entity2, entity1)
        direct_relations == forward.relations \o reverse.relations
        header == "Relationship between '" \o entity1 \o "' and '" \o entity2 \o "':"
    IN  IF m.pos = 0
        THEN {Out(<<"Could not parse entities from the query.">>, EmptyDict, NoHint, emb, <<>>)}
        ELSE IF entity1 = None \/ entity2 = None
        THEN {Out(<<"Could not find one or both entities in the graph.">>,
                  [searched_for |-> <<entity1_part, entity2_part>>], NoHint, r2.emb, resolved)}
        ELSE IF forward.raised # "" THEN {Exc(forward.raised, r2.emb, resolved)}
        ELSE IF reverse.raised # "" THEN {Exc(reverse.raised, r2.emb, resolved)}
        ELSE {Out(<<header>>
                  \o (IF direct_relations # <<>>
                      THEN <<"\nDirect relationships: " \o Join(direct_relations, ", ")>>
                      ELSE <<>>)
                  \o (IF Len(path) > 2
                      THEN <<"\nIndirect connection path (" \o ToString(Len(path) - 1) \o " steps):">>
                           \o PathLines(g, path)
                      ELSE IF Len(path) = 2 THEN <<"\nThey are directly connected.">>
                      ELSE IF path = NoPath
                      THEN <<"\nNo connection path found between these entities.">>
                      ELSE <<>>),
                  [entity1 |-> entity1, entity2 |-> entity2,
                   direct_relations |-> direct_relations, path |-> path],
                  "relationship", r2.emb, resolved) :
              path \in get_shortest_path(g, entity1, entity2)}

\* _get_entity_info: info['attributes'] raises KeyError on the empty dict that
\* get_entity_info returns for an id that is not a node
_get_entity_info(g, emb, query) ==
    LET entity_part == strip(replace(replace(query, "what is", ""), "what are", ""))
        r == _find_best_match(g, emb, entity_part)
        entity == r.id
        info == get_entity_info(g, entity)
    IN  IF entity = None
        THEN {Out(<<"Could not find '" \o entity_part \o "' in the knowledge graph.">>,
                  EmptyDict, NoHint, r.emb, <<[text |-> entity_part, id |-> entity]>>)}
        ELSE IF ~HasNode(g, entity) THEN {Exc("KeyError", r.emb, <<[text |-> entity_part, id |-> entity]>>)}
        ELSE {Out(<<"Information about '" \o entity \o "':">>
                  \o (IF "type" \in DOMAIN info.attributes
                      THEN <<"\nType: " \o info.attributes.type>> ELSE <<>>)
                  \o (IF "pagerank" \in DOMAIN info.attributes
                      THEN <<"Importance score: <pagerank>">> ELSE <<>>)
                  \o <<"\nConnections:",
                       "  * Incoming: " \o ToString(Len(info.incoming_edges)) \o " relationships",
                       "  * Outgoing: " \o ToString(Len(info.outgoing_edges)) \o " relationships">>,
                  info, "entity_info", r.emb, <<[text |-> entity_part, id |-> entity]>>)}

MaxListed == 20

\* re.search(r'all (\w+)', query): the position of the leftmost "all " that a
\* word character follows, 0 when there is none
TypeMatch(query) ==
    LET hits == {i \in 1..Len(query) :
                    HasAt(query, i, "all ") /\ IsWordChar(CharAt(query, i + Len("all ")))}
    IN  IF hits = {} THEN 0 ELSE MinOf(hits)

\* _find_entities_by_type; list(a set)[:MaxListed] is the whole set when it has
\* at most MaxListed members
_find_entities_by_type(g, types, emb, query) ==
    LET pos == TypeMatch(query)
        requested_type == upper(WordPrefix(From(query, pos + Len("all "))))
        hit == [i \in 1..Len(types.keys) |->
                   In(requested_type, upper(types.keys[i])) \/ In(upper(types.keys[i]), requested_type)]
        matching_types == Filter(types.keys, hit)
    IN  IF pos = 0
        THEN {Out(<<"Could not determine entity type from query.">>, EmptyDict, NoHint, emb, <<>>)}
        ELSE IF matching_types = <<>>
        THEN {Out(<<"No entities of type '" \o requested_type \o "' found.">>,
                  [available_types |-> types.keys], NoHint, emb, <<>>)}
        ELSE {Out(<<"Found entities of type(s) " \o Join(matching_types, ", ") \o ":">>
                  \o [i \in 1..Len(matching_types) |->
                         "\n" \o matching_types[i] \o " ("
                         \o ToString(Cardinality(types.sets[matching_types[i]])) \o " total):"],
                  [t \in Range(matching_types) |->
                      IF Cardinality(types.sets[t]) <= MaxListed THEN types.sets[t]
                      ELSE {"<first of the set>"}],
                  "entity_type", emb, <<>>)}

\* _find_path
_find_path(g, emb, query) ==
    LET last == SplitLast(query, <<"from", "between">>)
        entity1_part == IF In("between", query) THEN FirstToken(last)
                        ELSE strip(replace(replace(last, "to", ""), "and", ""))
        entity2_part == strip(SplitLast(last, <<"to", "and">>))
        r1 == _find_best_match(g, emb, entity1_part)
        r2 == _find_best_match(g, r1.emb, entity2_part)
        entity1 == r1.id
        entity2 == r2.id
        resolved == <<[text |-> entity1_part, id |-> entity1],
                      [text |-> entity2_part, id |-> entity2]>>
    IN  IF FirstMatch(query, <<"from", "between">>).pos = 0
        THEN {Out(<<"Could not parse entities from query.">>, EmptyDict, NoHint, emb, <<>>)}
        ELSE IF FirstMatch(last, <<"to", "and">>).pos = 0
        THEN {Out(<<"Could not parse second entity from query.">>, EmptyDict, NoHint, emb, <<>>)}
        ELSE IF entity1 = None \/ entity2 = None
        THEN {Out(<<"Could not find one or both entities in the graph.">>,
                  EmptyDict, NoHint, r2.emb, resolved)}
        ELSE {Out(IF path # NoPath
                  THEN <<"Shortest path from '" \o entity1 \o "' to '" \o entity2 \o "' ("
                         \o ToString(Len(path) - 1) \o " steps):">>
                       \o [i \in 1..(Len(path) - 1) |->
                              "  Step " \o ToString(i) \o ": " \o path[i] \o " -> " \o path[i + 1]]
                  ELSE <<"No path found between '" \o entity1 \o "' and '" \o entity2 \o "'.">>,
                  [path |-> path, length |-> IF path # NoPath THEN Len(path) - 1 ELSE None],
                  "path", r2.emb, resolved) :
              path \in get_shortest_path(g, entity1, entity2)}

SimilarTopK == 10

\* _find_similar
_find_similar(g, emb, query) ==
    LET entity_part == strip(replace(replace(query, "similar to", ""), "related to", ""))
        r == _find_best_match(g, emb, entity_part)
        entity == r.id
        emb1 == IF r.emb = <<>> THEN generate_embeddings(g, r.emb) ELSE r.emb
        similar == find_similar_entities(emb1, entity, SimilarTopK)
    IN  IF entity = None
        THEN {Out(<<"Could not find '" \o entity_part \o "' in the knowledge graph.">>,
                  EmptyDict, NoHint, r.emb, <<[text |-> entity_part, id |-> entity]>>)}
        ELSE {Out(<<"Entities similar to '" \o entity \o "':">>
                  \o [i \in 1..Len(similar) |-> "  * " \o similar[i].entity \o " (similarity: <score>)"],
                  [entity |-> entity, similar |-> similar], "similar", emb1, <<[text |-> entity_part, id |-> entity]>>)}

\* _get_neighbors: G.predecessors raises NetworkXError for an id that is not a node
_get_neighbors(g, emb, query) ==
    LET entity_part == strip(replace(replace(query, "neighbors of", ""), "connections of", ""))
        r == _find_best_match(g, emb, entity_part)
        entity == r.id
    IN  IF entity = None
        THEN {Out(<<"Could not find '" \o entity_part \o "' in the knowledge graph.">>,
                  EmptyDict, NoHint, r.emb, <<[text |-> entity_part, id |-> entity]>>)}
        ELSE IF ~HasNode(g, entity) THEN {Exc("NetworkXError", r.emb, <<[text |-> entity_part, id |-> entity]>>)}
        ELSE {Out(<<"Connections of '" \o entity \o "':">>
                  \o (IF predecessors(g, entity) # <<>>
                      THEN <<"\nIncoming connections (" \o ToString(Len(predecessors(g, entity))) \o "):">>
                      ELSE <<>>)
                  \o (IF successors(g, entity) # <<>>
                      THEN <<"\nOutgoing connections (" \o ToString(Len(successors(g, entity))) \o "):">>
                      ELSE <<>>)
                  \o (IF predecessors(g, entity) = <<>> /\ successors(g, entity) = <<>>
                      THEN <<"\nThis entity has no connections.">> ELSE <<>>),
                  [entity |-> entity, predecessors |-> predecessors(g, entity),
                   successors |-> successors(g, entity)],
                  "neighbors", r.emb, <<[text |-> entity_part, id |-> entity]>>)}

\* _get_statistics: the exception of get_graph_statistics propagates
_get_statistics(g, types, emb) ==
    LET stats == get_graph_statistics(g, types)
    IN  IF stats.raised # "" THEN {Exc(stats.raised, emb, <<>>)}
        ELSE {Out(<<"Knowledge Graph Statistics:",
                    "\n* Total nodes: " \o ToString(stats.val.num_nodes),
                    "* Total edges: " \o ToString(stats.val.num_edges),
                    "* Graph density: <density>",
                    "* Connected: " \o (IF stats.val.is_connected THEN "Yes" ELSE "No"),
                    "* Number of components: " \o ToString(stats.val.num_components)>>,
                  stats.val, "statistics", emb, <<>>)}

\* _get_most_important: nx.pagerank and nx.degree_centrality of the null graph are
\* empty dicts.  The PageRank ranking is the set of the nodes ranked, the degree
\* ranking is computed.
_get_most_important(g, emb) ==
    LET by_degree == [i \in 1..Len(g.nodes) |->
                         [entity |-> g.nodes[i],
                          score |-> IF number_of_nodes(g) <= 1 THEN 1 ELSE degree(g, g.nodes[i])]]
    IN  {Out(<<"Most important entities in the knowledge graph:",
               "\nBy PageRank (overall importance):",
               "\nBy degree centrality (most connected):">>,
             [pagerank |-> IF number_of_nodes(g) <= TopK THEN Range(g.nodes)
                           ELSE {"<top by pagerank>"},
              degree |-> Take(SortDesc(by_degree, Len(by_degree)), TopK)],
             "important_entities", emb, <<>>)}

\* _find_communities.  greedy_modularity_communities is not modelled: it merges
\* only communities joined by an edge, so it returns between one community per
\* weakly connected component and one per node.  On a graph without edges it
\* divides by the edge count in some networkx releases and returns the
\* singletons in others.
_find_communities(g, emb) ==
    IF number_of_edges(g) = 0
    THEN {Exc("ZeroDivisionError", emb, <<>>),
          Out(<<"Found " \o ToString(number_of_nodes(g)) \o " communities in the knowledge graph:">>,
              [num_communities |-> number_of_nodes(g)], "communities", emb, <<>>)}
    ELSE {Out(<<"Found " \o ToString(k) \o " communities in the knowledge graph:">>,
              [num_communities |-> k], "communities", emb, <<>>) :
          k \in number_weakly_connected_components(g)..number_of_nodes(g)}

\* _semantic_search: self.graph.nodes[entity] raises KeyError for an indexed
\* entity that is not a node
_semantic_search(g, emb, query) ==
    LET emb1 == IF emb = <<>> THEN generate_embeddings(g, emb) ELSE emb
        similarities == Similarities(emb1, encode(query))
        top_results == Take(SortDesc(similarities, Len(similarities)), TopK)
    IN  IF \E i \in 1..Len(top_results) : ~HasNode(g, top_results[i].entity)
        THEN {Exc("KeyError", emb1, <<>>)}
        ELSE {Out(<<"Most relevant entities for '" \o query \o "':">>
                  \o [i \in 1..Len(top_results) |->
                         "  * " \o top_results[i].entity \o " ("
                         \o NodeType(g, top_results[i].entity) \o ") - relevance: <score>"],
                  [query |-> query, results |-> top_results],
                  "search_results", emb1, <<>>)}

\* a dispatcher in which the last matching pattern wins
LastPattern(query_lower, i) ==
    LET hits == {k \in i..Len(query_patterns) : search(query_patterns[k].pattern, query_lower)}
    IN  IF hits = {} THEN 0 ELSE CHOOSE k \in hits : \A j \in hits : j <= k

\* the loop of process_query: the index of the first pattern that matches, 0 for none
RECURSIVE FirstPattern(_, _)
FirstPattern(query_lower, i) ==
    IF i > Len(query_patterns) THEN 0
    ELSE IF search(query_patterns[i].pattern, query_lower) THEN i
    ELSE FirstPattern(query_lower, i + 1)

Handle(handler, g, types, emb, query_lower) ==
    CASE handler = "_get_main_topics" -> _get_main_topics(g, emb)
      [] handler = "_find_relationship" -> _find_relationship(g, emb, query_lower)
      [] handler = "_get_entity_info" -> _get_entity_info(g, emb, query_lower)
      [] handler = "_find_entities_by_type" -> _find_entities_by_type(g, types, emb, query_lower)
      [] handler = "_find_path" -> _find_path(g, emb, query_lower)
      [] handler = "_find_similar" -> _find_similar(g, emb, query_lower)
      [] handler = "_get_neighbors" -> _get_neighbors(g, emb, query_lower)
      [] handler = "_get_statistics" -> _get_statistics(g, types, emb)
      [] handler = "_get_most_important" -> _get_most_important(g, emb)
      [] handler = "_find_communities" -> _find_communities(g, emb)

\* the queries handed to process_query
Queries == {
    "What are the main topics?",
    "how is Alice related to Bob",
    "How is Acme connected to Ted",
    "what is Apple",
    "what are the most important entities",
    "find all person entities",
    "shortest path from alice to ted",
    "shortest path from Ted to Alice",
    "shortest path between alice and ted",
    "similar to alice",
    "neighbors of acme",
    "graph statistics",
    "most central nodes",
    "show clusters",
    "zzz random gibberish query"
}

\* query.lower().strip() of each query
QueryLower == [query \in Queries |-> strip(lower(query))]

\* the pattern process_query stops at, for each query: a function of the query alone
Dispatch == [query \in Queries |-> FirstPattern(QueryLower[query], 1)]

\* process_query: the handler run and its outcomes
process_query(g, types, emb, query) ==
    LET query_lower == QueryLower[query]
        i == Dispatch[query]
    IN  IF i # 0
        THEN [handler |-> query_patterns[i].handler,
              outcomes |-> Handle(query_patterns[i].handler, g, types, emb, query_lower)]
        ELSE [handler |-> "_semantic_search", outcomes |-> _semantic_search(g, emb, query)]

(***************************************************************************)
(* The inputs of the model.                                                *)
(***************************************************************************)
Rel(s, r, t) == [source |-> s, relation |-> r, target |-> t, context |-> ""]

Extractions == <<
    \* the scenario of two people working at one organisation
    [entities |-> << <<"PERSON", <<"Alice", "Bob">> >>, <<"ORG", <<"Acme">> >> >>,
     relationships |-> << Rel("Alice", "works_at", "Acme"), Rel("Bob", "works_at", "Acme") >>],
    \* a chain Alice -> Acme -> Ted whose last node is not in the entity list
    [entities |-> << <<"PERSON", <<"Alice">> >>, <<"ORG", <<"Acme">> >> >>,
     relationships |-> << Rel("Alice", "works_at", "Acme"), Rel("Acme", "employs", "Ted") >>,
     entity_contexts |-> << <<"Alice", << [source |-> "doc1", type |-> "PERSON"] >> >> >>],
    \* two parallel edges with different relations, and two ids of which one
    \* contains the other and is listed under a second type as well
    [entities |-> << <<"ORG", <<"Apple Inc", "Apple">> >>, <<"PRODUCT", <<"Apple">> >> >>,
     relationships |-> << Rel("Bob", "likes", "Alice"), Rel("Bob", "dislikes", "Alice") >>],
    \* a record without a target between two well-formed records
    [entities |-> <<>>,
     relationships |-> << Rel("Ted", "knows", "Bob"),
                          [source |-> "Bob", relation |-> "knows"],
                          Rel("Bob", "knows", "Alice") >>],
    \* nothing extracted
    [entities |-> <<>>, relationships |-> <<>>]
>>

\* seeds and depth handed to get_subgraph: no hop, one hop with a seed that is
\* never a node, two hops, and only a seed that is never a node
SubgraphCalls == {<<{"Alice"}, 0>>, <<{"Alice", "Zed"}, 1>>, <<{"Ted"}, 2>>, <<{"Zed"}, 1>>}

\* a corpus processed in batches: every batch but the last brings BatchSize new
\* entities and one relationship between two of them, the last brings one
\* entity less, so that all batches together stop one node short of the gate
BatchSize == 50

Batches == 20

EntityBatch(k, size) ==
    [entities |-> << <<"CONCEPT", [i \in 1..size |-> "n" \o ToString(k) \o "_" \o ToString(i)]>> >>,
     relationships |-> << Rel("n" \o ToString(k) \o "_1", "related_to", "n" \o ToString(k) \o "_2") >>]

LargeExtractions ==
    [k \in 1..Batches |-> EntityBatch(k, IF k < Batches THEN BatchSize ELSE BatchSize - 1)]

\* an extraction result of one entity, linked to the first entity of the corpus
Singles == {"x1"}

SingleExtraction(e) ==
    [entities |-> << <<"CONCEPT", <<e>> >> >>, relationships |-> << Rel(e, "related_to", "n1_1") >>]

\* ids handed to get_entity_info on the large graph
GateProbes == {"x1", "n1_1"}

\* ids handed to get_entity_info: three possible nodes and one id that is never a node
ProbeIds == {"Bob", "Acme", "Ted", "Zed"}

\* (source, target) pairs handed to get_shortest_path
ProbePairs == {<<"Alice", "Ted">>, <<"Ted", "Alice">>, <<"Alice", "Alice">>, <<"Bob", "Acme">>,
               <<"Bob", "Alice">>, <<"Alice", "Zed">>, <<"Zed", "Zed">>}

\* (entity, top_k) pairs handed to find_similar_entities
SimilarCalls == {<<"Alice", 1>>, <<"Alice", 5>>, <<"Zed", 5>>}

(***************************************************************************)
(* The state machine: one action per call of the public interface.         *)
(***************************************************************************)
Returned(op, arg, val) == [op |-> op, arg |-> arg, raised |-> "", val |-> val]

Raised(op, arg, exc) == [op |-> op, arg |-> arg, raised |-> exc, val |-> None]

NoFile == <<>>

\* the threads that call process_query on the one QueryProcessor
Threads == {1, 2}

\* a thread that has not called yet: the locals of _semantic_search unset
IdleThread ==
    [pc |-> "idle", query |-> "", entities |-> <<>>, i |-> 0, used |-> 0, pos |-> 0,
     similarities |-> <<>>, raised |-> "", results |-> <<>>]

Init ==
    /\ graph = EmptyGraph
    /\ entity_types = EmptyTypes
    /\ entity_embeddings = <<>>
    /\ file = NoFile
    /\ ret = Returned("__init__", None, None)
    /\ nbuild = 0
    /\ nimport = 0
    /\ nexport = 0
    /\ threads = [t \in Threads |-> IdleThread]

\* kg.build_graph(Extractions[k])
Build(k) ==
    /\ nbuild < MaxBuilds
    /\ nbuild' = nbuild + 1
    /\ LET r == build_graph([graph |-> graph, entity_types |-> entity_types, raised |-> ""],
                            Extractions[k])
       IN  /\ graph' = r.graph
           /\ entity_types' = r.entity_types
           /\ ret' = IF r.raised = "" THEN Returned("build_graph", k, None)
                                      ELSE Raised("build_graph", k, r.raised)
    /\ UNCHANGED <<entity_embeddings, file, nimport, nexport, threads>>

\* kg.build_graph(Extractions[k]) in a run where nx.pagerank raises
BuildPagerankRaises(k) ==
    /\ nbuild < MaxBuilds
    /\ nbuild' = nbuild + 1
    /\ LET r == build_graph_pagerank_raises(
                    [graph |-> graph, entity_types |-> entity_types, raised |-> ""],
                    Extractions[k])
       IN  /\ graph' = r.graph
           /\ entity_types' = r.entity_types
           /\ ret' = IF r.raised = "" THEN Returned("build_graph", k, None)
                                      ELSE Raised("build_graph", k, r.raised)
    /\ UNCHANGED <<entity_embeddings, file, nimport, nexport, threads>>

\* kg.get_entity_info(entity)
GetEntityInfo(entity) ==
    /\ ret' = Returned("get_entity_info", entity, get_entity_info(graph, entity))
    /\ UNCHANGED <<graph, entity_types, entity_embeddings, file, nbuild, nimport, nexport, threads>>

\* kg.get_shortest_path(source, target)
GetShortestPath(source, target) ==
    /\ \E path \in get_shortest_path(graph, source, target) :
           ret' = Returned("get_shortest_path", <<source, target>>, path)
    /\ UNCHANGED <<graph, entity_types, entity_embeddings, file, nbuild, nimport, nexport, threads>>

\* kg.get_subgraph(nodes, depth)
GetSubgraph(nodes, depth) ==
    /\ ret' = Returned("get_subgraph", <<nodes, depth>>, get_subgraph(graph, nodes, depth))
    /\ UNCHANGED <<graph, entity_types, entity_embeddings, file, nbuild, nimport, nexport, threads>>

\* kg.generate_embeddings()
Generate ==
    /\ entity_embeddings' = generate_embeddings(graph, entity_embeddings)
    /\ ret' = Returned("generate_embeddings", None, None)
    /\ UNCHANGED <<graph, entity_types, file, nbuild, nimport, nexport, threads>>

\* kg.export_to_json(filepath)
Export ==
    /\ nexport < MaxExports
    /\ nexport' = nexport + 1
    /\ LET r == export_to_json(graph, entity_types)
       IN  /\ file' = IF r.raised = "" THEN <<r.val>> ELSE file
           /\ ret' = IF r.raised = "" THEN Returned("export_to_json", None, None)
                                      ELSE Raised("export_to_json", None, r.raised)
    /\ UNCHANGED <<graph, entity_types, entity_embeddings, nbuild, nimport, threads>>

\* kg.import_from_json(filepath): open() raises before anything is cleared when
\* the file does not exist
Import ==
    /\ nimport < MaxImports
    /\ nimport' = nimport + 1
    /\ IF file = NoFile
       THEN /\ ret' = Raised("import_from_json", None, "FileNotFoundError")
            /\ UNCHANGED graph
       ELSE /\ graph' = import_from_json(file[1])
            /\ ret' = Returned("import_from_json", None, None)
    /\ UNCHANGED <<entity_types, entity_embeddings, file, nbuild, nexport, threads>>

\* kg.find_similar_entities(entity, top_k)
FindSimilar(entity, top_k) ==
    /\ ret' = Returned("find_similar_entities", <<entity, top_k>>,
                       find_similar_entities(entity_embeddings, entity, top_k))
    /\ UNCHANGED <<graph, entity_types, entity_embeddings, file, nbuild, nimport, nexport, threads>>

\* kg.get_graph_statistics()
GetStatistics ==
    /\ LET r == get_graph_statistics(graph, entity_types)
       IN  ret' = IF r.raised = "" THEN Returned("get_graph_statistics", None, r.val)
                                  ELSE Raised("get_graph_statistics", None, r.raised)
    /\ UNCHANGED <<graph, entity_types, entity_embeddings, file, nbuild, nimport, nexport, threads>>

\* qp.process_query(query)
Process(query) ==
    /\ LET r == process_query(graph, entity_types, entity_embeddings, query)
       IN  \E out \in r.outcomes :
               /\ entity_embeddings' = out.emb
               /\ ret' = [op |-> "process_query", arg |-> query, raised |-> out.raised,
                          val |-> IF out.raised # "" THEN None
                                  ELSE [answer |-> out.answer, data |-> out.data,
                                        visualization_hint |-> out.hint],
                          handler |-> r.handler, resolved |-> out.resolved]
    /\ UNCHANGED <<graph, entity_types, file, nbuild, nimport, nexport, threads>>

\* queries that match no pattern, so that process_query runs _semantic_search
ConcurrentQueries == {"zzz random gibberish query", "connected"}

ConcurrentDispatch == [query \in ConcurrentQueries |-> FirstPattern(strip(lower(query)), 1)]

\* thread t calls process_query(query) and arrives in _semantic_search with
\* the query encoded
Call(t, query) ==
    /\ threads[t].pc = "idle"
    /\ ConcurrentDispatch[query] = 0
    /\ threads' = [threads EXCEPT ![t] = [@ EXCEPT !.pc = "test", !.query = query]]
    /\ UNCHANGED <<graph, entity_types, entity_embeddings, file, ret, nbuild, nimport, nexport>>

\* 'if not self.kg.entity_embeddings': an empty index sends the thread into
\* generate_embeddings, which lists the nodes and encodes them; otherwise the
\* thread creates the iterator of entity_embeddings.items()
TestIndex(t) ==
    /\ threads[t].pc = "test"
    /\ threads' = [threads EXCEPT ![t] =
                      IF entity_embeddings = <<>>
                      THEN [@ EXCEPT !.pc = "generate", !.entities = graph.nodes, !.i = 1]
                      ELSE [@ EXCEPT !.pc = "iterate", !.used = Len(entity_embeddings), !.pos = 1]]
    /\ UNCHANGED <<graph, entity_types, entity_embeddings, file, ret, nbuild, nimport, nexport>>

\* one round of the loop of generate_embeddings,
\* self.entity_embeddings[entity] = embedding; after the last round the thread
\* is back in _semantic_search and creates the iterator of the index
GenerateStep(t) ==
    /\ threads[t].pc = "generate"
    /\ IF threads[t].i <= Len(threads[t].entities)
       THEN /\ entity_embeddings' = EmbSet(entity_embeddings, threads[t].entities[threads[t].i],
                                           encode(threads[t].entities[threads[t].i]))
            /\ threads' = [threads EXCEPT ![t].i = @ + 1]
       ELSE /\ threads' = [threads EXCEPT ![t] =
                              [@ EXCEPT !.pc = "iterate", !.used = Len(entity_embeddings), !.pos = 1]]
            /\ UNCHANGED entity_embeddings
    /\ UNCHANGED <<graph, entity_types, file, ret, nbuild, nimport, nexport>>

\* one step of 'for entity, embedding in self.kg.entity_embeddings.items()':
\* the dict iterator raises RuntimeError when the dict has another size than
\* at its creation; at the end of the loop the thread sorts, slices and
\* formats, which reads self.graph.nodes[entity] for every result
IterateStep(t) ==
    /\ threads[t].pc = "iterate"
    /\ threads' = [threads EXCEPT ![t] =
          IF Len(entity_embeddings) # @.used
          THEN [@ EXCEPT !.pc = "done", !.raised = "RuntimeError"]
          ELSE IF @.pos <= Len(entity_embeddings)
          THEN [@ EXCEPT !.pos = @ + 1,
                         !.similarities = Append(@, [entity |-> entity_embeddings[threads[t].pos].entity,
                                                     score |-> cosine_similarity(
                                                                   encode(threads[t].query),
                                                                   entity_embeddings[threads[t].pos].vec)])]
          ELSE LET top_results == Take(SortDesc(@.similarities, Len(@.similarities)), TopK)
               IN  IF \E k \in 1..Len(top_results) : ~HasNode(graph, top_results[k].entity)
                   THEN [@ EXCEPT !.pc = "done", !.raised = "KeyError"]
                   ELSE [@ EXCEPT !.pc = "done", !.results = top_results]]
    /\ UNCHANGED <<graph, entity_types, entity_embeddings, file, ret, nbuild, nimport, nexport>>

\* a build while no thread has called yet: no build is in flight during a query
ConcurrentBuild(k) ==
    /\ \A t \in Threads : threads[t].pc = "idle"
    /\ Build(k)

\* kg.build_graph on the next batch of the corpus
BuildBatch ==
    /\ nbuild < Batches
    /\ nbuild' = nbuild + 1
    /\ LET r == build_graph([graph |-> graph, entity_types |-> entity_types, raised |-> ""],
                            LargeExtractions[nbuild + 1])
       IN  /\ graph' = r.graph
           /\ entity_types' = r.entity_types
           /\ ret' = IF r.raised = "" THEN Returned("build_graph", nbuild + 1, None)
                                      ELSE Raised("build_graph", nbuild + 1, r.raised)
    /\ UNCHANGED <<entity_embeddings, file, nimport, nexport, threads>>

\* kg.build_graph on the extraction result of one entity, once per entity
BuildSingle(e) ==
    /\ ~HasNode(graph, e)
    /\ LET r == build_graph([graph |-> graph, entity_types |-> entity_types, raised |-> ""],
                            SingleExtraction(e))
       IN  /\ graph' = r.graph
           /\ entity_types' = r.entity_types
           /\ ret' = IF r.raised = "" THEN Returned("build_graph", e, None)
                                      ELSE Raised("build_graph", e, r.raised)
    /\ UNCHANGED <<entity_embeddings, file, nbuild, nimport, nexport, threads>>

\* the calls that change the store
StoreNext ==
    \/ \E k \in 1..Len(Extractions) : Build(k)
    \/ Generate
    \/ Export
    \/ Import

\* the read calls of the store
ReadNext ==
    \/ GetStatistics
    \/ \E entity \in ProbeIds : GetEntityInfo(entity)
    \/ \E pair \in ProbePairs : GetShortestPath(pair[1], pair[2])
    \/ \E call \in SimilarCalls : FindSimilar(call[1], call[2])
    \/ \E call \in SubgraphCalls : GetSubgraph(call[1], call[2])

Next == StoreNext \/ ReadNext

\* the store used through its own interface
Spec == Init /\ [][Next]_vars

MetricsNext ==
    \/ \E k \in 1..Len(Extractions) : Build(k)
    \/ \E k \in 1..Len(Extractions) : BuildPagerankRaises(k)
    \/ \E entity \in ProbeIds : GetEntityInfo(entity)

\* builds whose metrics pass completes or is cut short by nx.pagerank raising
SpecMetrics == Init /\ [][MetricsNext]_vars

QueryNext == StoreNext \/ \E query \in Queries : Process(query)

\* the store built, exported and imported, and queried through the query processor
SpecQuery == Init /\ [][QueryNext]_vars

ConcurrentNext ==
    \/ \E k \in 1..Len(Extractions) : ConcurrentBuild(k)
    \/ \E t \in Threads : \E query \in ConcurrentQueries : Call(t, query)
    \/ \E t \in Threads : TestIndex(t)
    \/ \E t \in Threads : GenerateStep(t)
    \/ \E t \in Threads : IterateStep(t)

\* two threads running process_query on a built store, interleaved between
\* the steps that read or write the embedding index
SpecConcurrent == Init /\ [][ConcurrentNext]_vars

GateNext ==
    \/ BuildBatch
    \/ \E e \in Singles : BuildSingle(e)
    \/ \E entity \in GateProbes : GetEntityInfo(entity)

\* a graph grown batch by batch up to and past the size at which the metrics
\* pass leaves betweenness out
SpecGate == Init /\ [][GateNext]_vars

(***************************************************************************)
(* Claims.                                                                 *)
(***************************************************************************)
EdgeOf(rel) ==
    [source |-> rel.source, target |-> rel.target,
     data |-> [relation |-> rel.relation, context |-> Get(rel, "context", "")]]

Count(seq, x) == Cardinality({i \in 1..Len(seq) : seq[i] = x})

\* a build that returned appended one edge per record, in order
C1_BuildAppendsEveryRecord ==
    (ret'.op = "build_graph" /\ ret'.raised = "") =>
        LET rels == Extractions[ret'.arg].relationships
        IN  /\ Len(graph'.edges) = Len(graph.edges) + Len(rels)
            /\ \A k \in 1..Len(rels) : graph'.edges[Len(graph.edges) + k] = EdgeOf(rels[k])

\* get_entity_info lists one (target, relation) entry per edge leaving the entity
C1_InfoListsEveryEdge ==
    (ret.op = "get_entity_info" /\ HasNode(graph, ret.arg)) =>
        \A i \in 1..Len(graph.edges) :
            LET e == graph.edges[i]
                entry == [target |-> e.target, relation |-> e.data.relation]
            IN  e.source = ret.arg =>
                    Count(ret.val.outgoing_edges, entry) =
                        Cardinality({j \in 1..Len(graph.edges) :
                                        /\ graph.edges[j].source = ret.arg
                                        /\ graph.edges[j].target = e.target
                                        /\ graph.edges[j].data.relation = e.data.relation})

\* C1: the Graph Store never collapses or deduplicates edges: every well-formed
\* record passed to build adds its own edge, and get_entity_info(A).outgoing_edges
\* has one entry per parallel edge, (B, likes) and (B, dislikes) for the two
\* records (A, likes, B) and (A, dislikes, B).
C1_MultigraphPreserved == [][C1_BuildAppendsEveryRecord]_vars /\ []C1_InfoListsEveryEdge

C1_Witness ==
    /\ ret.op = "get_entity_info"
    /\ ret.arg = "Bob"
    /\ Cardinality({i \in 1..Len(graph.edges) :
                       graph.edges[i].source = "Bob" /\ graph.edges[i].target = "Alice"}) >= 2
    /\ Count(ret.val.outgoing_edges, [target |-> "Alice", relation |-> "likes"]) = 1
    /\ Count(ret.val.outgoing_edges, [target |-> "Alice", relation |-> "dislikes"]) = 1

\* the nodes reachable from a by a directed walk of at most k edges
RECURSIVE ReachIn(_, _, _)
ReachIn(g, a, k) ==
    IF k <= 0 THEN {a}
    ELSE LET R == ReachIn(g, a, k - 1)
         IN  R \cup {g.edges[i].target : i \in {j \in 1..Len(g.edges) : g.edges[j].source \in R}}

IsDirectedPath(g, p) == \A i \in 1..(Len(p) - 1) : has_edge(g, p[i], p[i + 1])

\* C2: get_shortest_path(a, b) returns a minimum-hop path that follows edge
\* direction only: [A, B, C] for a chain A->B->C without an edge A->C, [A] for
\* get_shortest_path(A, A), None when b is not reachable from a along directed
\* edges or when a or b is not a node; it never raises.
C2_ShortestPath ==
    ret.op = "get_shortest_path" =>
        LET a == ret.arg[1]
            b == ret.arg[2]
            p == ret.val
            known == HasNode(graph, a) /\ HasNode(graph, b)
            reachable == b \in ReachIn(graph, a, number_of_nodes(graph))
        IN  /\ ret.raised = ""
            /\ ~known => p = NoPath
            /\ (known /\ a = b) => p = <<a>>
            /\ (known /\ ~reachable) => p = NoPath
            /\ (known /\ reachable) =>
                   /\ p # NoPath
                   /\ p[1] = a /\ p[Len(p)] = b
                   /\ IsDirectedPath(graph, p)
                   /\ Len(p) >= 2 => b \notin ReachIn(graph, a, Len(p) - 2)
            /\ \A m \in Range(graph.nodes) :
                   (/\ Cardinality({a, m, b}) = 3
                    /\ has_edge(graph, a, m) /\ has_edge(graph, m, b)
                    /\ ~has_edge(graph, a, b)) => Len(p) = 3

C2_Witness ==
    /\ ret.op = "get_shortest_path"
    /\ ret.arg = <<"Alice", "Ted">>
    /\ ~has_edge(graph, "Alice", "Ted")
    /\ ret.val = <<"Alice", "Acme", "Ted">>

\* C3: build() given a relationship list in which one record lacks a source,
\* target or relation key completes without raising, skips only that record,
\* still adds every other well-formed record as an edge, and still runs the
\* metrics pass.
C3_MalformedRecordSkipped ==
    ret.op = "build_graph" =>
        LET rels == Extractions[ret.arg].relationships
        IN  /\ ret.raised = ""
            /\ \A k \in 1..Len(rels) :
                   WellFormed(rels[k]) => EdgeOf(rels[k]) \in Range(graph.edges)
            /\ \A n \in Range(graph.nodes) : "pagerank" \in DOMAIN graph.attrs[n]

\* the registered patterns that match each query, lower-cased and trimmed
C4_Matching ==
    [query \in Queries |->
        {i \in 1..Len(query_patterns) : search(query_patterns[i].pattern, strip(lower(query)))}]

\* C4: process(query) evaluates the pattern list in registration order
\* (main-topics, relationship, entity-info, type-filter, path, similarity,
\* neighbors, statistics, importance, communities) against the lower-cased,
\* trimmed query and invokes exactly one handler, that of the first pattern that
\* matches; the semantic-search fallback runs if and only if no pattern matches.
C4_FirstMatchWins ==
    /\ [i \in 1..Len(query_patterns) |-> query_patterns[i].handler] =
           <<"_get_main_topics", "_find_relationship", "_get_entity_info",
             "_find_entities_by_type", "_find_path", "_find_similar", "_get_neighbors",
             "_get_statistics", "_get_most_important", "_find_communities">>
    /\ ret.op = "process_query" =>
           LET matching == C4_Matching[ret.arg]
           IN  /\ matching # {} =>
                      /\ ret.handler = query_patterns[MinOf(matching)].handler
                      /\ \A i \in matching \ {MinOf(matching)} :
                             ret.handler # query_patterns[i].handler
               /\ (ret.handler = "_semantic_search") <=> (matching = {})

C4_Witness ==
    /\ ret.op = "process_query"
    /\ ret.arg = "how is Alice related to Bob"
    /\ {2, 6} \subseteq C4_Matching[ret.arg]
    /\ ret.handler = "_find_relationship"

\* C5: for every query and every store state reachable by build, import and
\* generate calls (the zero-node graph included), process(query) returns a
\* structured result with an answer string and a data field and never raises.
C5_ProcessNeverRaises ==
    ret.op = "process_query" =>
        /\ ret.raised = ""
        /\ {"answer", "data"} \subseteq DOMAIN ret.val

IsDescending(results) ==
    \A i \in 1..Len(results) : \A j \in i..Len(results) : results[i].score >= results[j].score

\* C6: a query that matches none of the registered patterns never raises and
\* returns a non-empty answer, the visualization_hint search_results and at most
\* 10 (entity, score) results in descending score order, in every reachable
\* store state: an empty graph and a graph replaced by import after embeddings
\* were generated included.
C6_FallbackNeverRaises ==
    (ret.op = "process_query" /\ C4_Matching[ret.arg] = {}) =>
        /\ ret.raised = ""
        /\ ret.val.answer # ""
        /\ ret.val.visualization_hint = "search_results"
        /\ Len(ret.val.data.results) <= 10
        /\ IsDescending(ret.val.data.results)

\* the ids the three tiers of the resolver allow for a text
C7_Allowed(g, emb, text) ==
    LET text_lower == strip(lower(text))
        exact == {n \in Range(g.nodes) : lower(n) = text_lower}
        partial == {n \in Range(g.nodes) : In(text_lower, lower(n)) \/ In(lower(n), text_lower)}
        sims == Range(Similarities(emb, encode(text)))
        best == {x \in sims : \A y \in sims : y.score <= x.score}
    IN  IF exact # {} THEN exact
        ELSE IF partial # {} THEN partial
        ELSE IF \E x \in best : x.score > 500 THEN {x.entity : x \in best}
        ELSE {None}

\* C7: resolve(text) applies three tiers in strict priority: an id equal to the
\* text case-insensitively is returned even when other ids contain the text
\* ('Apple' with nodes 'Apple Inc' and 'Apple' resolves to 'Apple'); otherwise
\* an id that contains the text or is contained in it; otherwise the indexed
\* entity of highest similarity, only if that similarity is strictly greater
\* than 0.5, and none otherwise.
C7_ResolverCascade ==
    ret.op = "process_query" =>
        \A i \in 1..Len(ret.resolved) :
            /\ ret.resolved[i].id \in C7_Allowed(graph, entity_embeddings, ret.resolved[i].text)
            /\ ({"Apple", "Apple Inc"} \subseteq Range(graph.nodes) /\ ret.resolved[i].text = "apple")
                   => ret.resolved[i].id = "Apple"

C7_Witness ==
    /\ ret.op = "process_query"
    /\ ret.arg = "what is Apple"
    /\ \E i, j \in 1..Len(graph.nodes) :
           i < j /\ graph.nodes[i] = "Apple Inc" /\ graph.nodes[j] = "Apple"
    /\ ret.resolved = <<[text |-> "apple", id |-> "Apple"]>>

\* the graph of the scenario: Alice and Bob both work at Acme
AliceBobAcme ==
    build_graph([graph |-> EmptyGraph, entity_types |-> EmptyTypes, raised |-> ""],
                Extractions[1]).graph

\* C8: after building {PERSON: [Alice, Bob], ORG: [Acme]} with (Alice, works_at,
\* Acme) and (Bob, works_at, Acme), the statistics report 3 nodes and 2 edges,
\* and 'how is Alice related to Bob' returns a relationship result with no
\* direct relation and the 2-hop path from Alice through Acme to Bob.
C8_AliceBobScenario ==
    graph = AliceBobAcme =>
        /\ get_graph_statistics(graph, entity_types).val.num_nodes = 3
        /\ get_graph_statistics(graph, entity_types).val.num_edges = 2
        /\ (ret.op = "process_query" /\ ret.arg = "how is Alice related to Bob") =>
               /\ ret.raised = ""
               /\ ret.val.visualization_hint = "relationship"
               /\ ret.val.data.direct_relations = <<>>
               /\ ret.val.data.path = <<"Alice", "Acme", "Bob">>

\* the relation labels of the edges a -> b
C9_Labels(g, a, b) ==
    {g.edges[i].data.relation : i \in {j \in 1..Len(g.edges) :
                                          g.edges[j].source = a /\ g.edges[j].target = b}}

\* the relationship handler ran with both entities resolved
BothResolved ==
    /\ ret.op = "process_query"
    /\ ret.handler = "_find_relationship"
    /\ Len(ret.resolved) = 2
    /\ ret.resolved[1].id # None
    /\ ret.resolved[2].id # None

\* C9: with e1 and e2 resolved, the relationship handler checks direct edges in
\* both directions: data.direct_relations holds the label of every edge e1->e2
\* and, marked as reverse, of every edge e2->e1, and is empty only when the
\* graph has no edge between e1 and e2 in either direction.
C9_DirectRelationsBothWays ==
    BothResolved =>
        LET e1 == ret.resolved[1].id
            e2 == ret.resolved[2].id
        IN  /\ ret.raised = ""
            /\ \A l \in C9_Labels(graph, e1, e2) : l \in Range(ret.val.data.direct_relations)
            /\ \A l \in C9_Labels(graph, e2, e1) :
                   (l \o " (reverse)") \in Range(ret.val.data.direct_relations)
            /\ (ret.val.data.direct_relations = <<>>) =>
                   (~has_edge(graph, e1, e2) /\ ~has_edge(graph, e2, e1))

\* C10: for resolved entities e1 # e2 the relationship handler returns exactly
\* one of three outcomes fixed by the directed shortest path from e1 to e2:
\* 'directly connected' for a path of 2 nodes, an itemised list of the hops'
\* relation labels for a longer one, 'no connection' when there is no path, the
\* three told apart by the returned data.
C10_ThreeOutcomes ==
    (BothResolved /\ ret.resolved[1].id # ret.resolved[2].id) =>
        LET e1 == ret.resolved[1].id
            e2 == ret.resolved[2].id
            reachable == e2 \in ReachIn(graph, e1, number_of_nodes(graph))
        IN  /\ ret.raised = ""
            /\ has_edge(graph, e1, e2) =>
                   /\ Len(ret.val.data.path) = 2
                   /\ In("directly connected", ret.val.answer)
            /\ (reachable /\ ~has_edge(graph, e1, e2)) =>
                   /\ Len(ret.val.data.path) > 2
                   /\ In("Indirect connection path", ret.val.answer)
            /\ ~reachable =>
                   /\ ret.val.data.path = NoPath
                   /\ In("No connection path found", ret.val.answer)

\* C11: in the registration order every more specific intent pattern takes
\* priority over the general 'what is/are X' entity-info pattern: 'what are the
\* main topics' goes to the main-topics handler and 'what are the most
\* important entities' to the importance handler, not to entity-info.
C11_SpecificBeforeGeneral ==
    ret.op = "process_query" =>
        /\ ret.arg = "What are the main topics?" => ret.handler = "_get_main_topics"
        /\ ret.arg = "what are the most important entities" =>
               ret.handler = "_get_most_important"
        /\ \A i \in C4_Matching[ret.arg] :
               query_patterns[i].handler # "_get_entity_info" =>
                   ret.handler # "_get_entity_info"

\* the type keys under which the type index lists an id
C12_KeysOf(types, id) == {t \in Range(types.keys) : id \in types.sets[t]}

\* C12: after any sequence of build calls every entity id appears under exactly
\* one type key of the type index, the type most recently assigned to it: an id
\* supplied under T1 and later under T2 is listed only under T2.
C12_OneTypePerEntity ==
    nimport = 0 =>
        \A t \in Range(entity_types.keys) : \A id \in entity_types.sets[t] :
            /\ C12_KeysOf(entity_types, id) = {t}
            /\ NodeType(graph, id) = t

\* an edge as the snapshot records it
C13_Quad(e) ==
    [source |-> e.source, target |-> e.target,
     relation |-> e.data.relation, context |-> e.data.context]

\* the graph g holds exactly the node ids, node types and multiset of edges of
\* the snapshot
C13_SameAsSnapshot(g, snapshot) ==
    /\ Range(g.nodes) = {snapshot.nodes[i].id : i \in 1..Len(snapshot.nodes)}
    /\ Len(g.nodes) = Len(snapshot.nodes)
    /\ \A i \in 1..Len(snapshot.nodes) :
           Get(g.attrs[snapshot.nodes[i].id], "type", None) = Get(snapshot.nodes[i], "type", None)
    /\ Len(g.edges) = Len(snapshot.edges)
    /\ \A k \in 1..Len(snapshot.edges) :
           Cardinality({i \in 1..Len(g.edges) : C13_Quad(g.edges[i]) = snapshot.edges[k]}) =
               Count(snapshot.edges, snapshot.edges[k])

\* an export that returned wrote the snapshot of the graph it was called on
C13_ExportWritesGraph ==
    (ret'.op = "export_to_json" /\ ret'.raised = "") => C13_SameAsSnapshot(graph, file'[1])

\* after an import that returned, the graph is the snapshot and nothing else
C13_ImportReplaces ==
    (ret.op = "import_from_json" /\ ret.raised = "") => C13_SameAsSnapshot(graph, file[1])

\* C13: import is a full replace of the graph and round-trips with export:
\* exporting a store and importing that snapshot into any store, empty or
\* populated with other data, leaves the graph with exactly the snapshot's node
\* ids and types and its multiset of (source, target, relation, context) edges;
\* no node or edge present before the import survives it.
C13_ImportRoundTrip == [][C13_ExportWritesGraph]_vars /\ []C13_ImportReplaces

C13_Witness ==
    /\ ret.op = "import_from_json"
    /\ ret.raised = ""
    /\ \E i, j \in 1..Len(graph.edges) :
           /\ i # j
           /\ graph.edges[i].source = graph.edges[j].source
           /\ graph.edges[i].target = graph.edges[j].target
    /\ \E t \in Range(entity_types.keys) : \E id \in entity_types.sets[t] : ~HasNode(graph, id)

\* the nodes of the graph whose type attribute is t
C14_NodesOfType(g, t) == {n \in Range(g.nodes) : Get(g.attrs[n], "type", None) = t}

\* C14: import rebuilds the type index together with the graph: after
\* import_from_json the type index, and with it the per-type counts of
\* get_graph_statistics, lists for every type exactly the imported nodes of
\* that type, with no entry left over and no imported node missing.
C14_ImportRebuildsTypeIndex ==
    (ret.op = "import_from_json" /\ ret.raised = "") =>
        /\ \A t \in Range(entity_types.keys) :
               entity_types.sets[t] = C14_NodesOfType(graph, t)
        /\ \A n \in Range(graph.nodes) :
               Get(graph.attrs[n], "type", None) \in Range(entity_types.keys)
        /\ \A t \in Range(entity_types.keys) :
               get_graph_statistics(graph, entity_types).val.entity_types[t] =
                   Cardinality(C14_NodesOfType(graph, t))

\* C15: generate() replaces the embedding index wholesale: immediately after
\* every generate() call the key set of the index equals the current node set;
\* every current node has a vector and no id that is not currently a node (one
\* dropped by an import, for example) remains indexed.
C15_GenerateReplacesIndex ==
    ret.op = "generate_embeddings" =>
        /\ ret.raised = ""
        /\ Range(EmbKeys(entity_embeddings)) = Range(graph.nodes)

\* a find_similar call leaves the index as it was
C16_LookupLeavesIndex ==
    ret'.op = "find_similar_entities" => entity_embeddings' = entity_embeddings

\* what find_similar returns for an id without a vector and for an indexed id
C16_LookupResult ==
    ret.op = "find_similar_entities" =>
        LET id == ret.arg[1]
            top_k == ret.arg[2]
        IN  /\ ret.raised = ""
            /\ id \notin Range(EmbKeys(entity_embeddings)) => ret.val = <<>>
            /\ id \in Range(EmbKeys(entity_embeddings)) =>
                   /\ Len(ret.val) <= top_k
                   /\ IsDescending(ret.val)
                   /\ \A i \in 1..Len(ret.val) :
                          /\ ret.val[i].entity # id
                          /\ ret.val[i].entity \in Range(EmbKeys(entity_embeddings))

\* C16: find_similar(id, top_k) never triggers generation: for an id with no
\* vector, a node added by a build after the last generate() in particular, it
\* returns the empty list and leaves the index unchanged, until generate() is
\* called again; for an indexed id it returns at most top_k (id, score) pairs
\* sorted by descending score and never including id itself.
C16_FindSimilarNoGeneration == [][C16_LookupLeavesIndex]_vars /\ []C16_LookupResult

C16_Witness ==
    /\ ret.op = "find_similar_entities"
    /\ ret.arg[1] = "Alice"
    /\ HasNode(graph, "Alice")
    /\ entity_embeddings # <<>>
    /\ "Alice" \notin Range(EmbKeys(entity_embeddings))
    /\ ret.val = <<>>

\* node count, edge count, density and number of weakly connected components
C17_Counts(g) ==
    <<number_of_nodes(g), number_of_edges(g), density(g), number_weakly_connected_components(g)>>

\* a build that follows a build of the same extraction result leaves the counts
C17_SecondBuildKeepsCounts ==
    (/\ ret.op = "build_graph" /\ ret.raised = ""
     /\ ret'.op = "build_graph" /\ ret'.raised = ""
     /\ ret'.arg = ret.arg /\ nbuild' = nbuild + 1)
        => C17_Counts(graph') = C17_Counts(graph)

\* C17: rebuild is idempotent: calling build(E) a second time with the same
\* extraction result E on the same store leaves node count, edge count, density
\* and weakly-connected-component count equal to their values after the first
\* build(E).
C17_RebuildIdempotent == [][C17_SecondBuildKeepsCounts]_vars

\* C19: after every build of a graph with at least 2 nodes, every node's
\* degree_centrality, its total degree (in plus out, parallel edges counted)
\* normalised by n-1, satisfies 0 <= degree_centrality <= 1: no node's total
\* degree exceeds n-1.
C19_DegreeCentralityBounded ==
    (ret.op = "build_graph" /\ ret.raised = "" /\ number_of_nodes(graph) >= 2) =>
        \A n \in Range(graph.nodes) :
            /\ "degree_centrality" \in DOMAIN graph.attrs[n]
            /\ graph.attrs[n].degree_centrality = <<degree(graph, n), number_of_nodes(graph) - 1>>
            /\ 0 <= graph.attrs[n].degree_centrality[1]
            /\ graph.attrs[n].degree_centrality[1] <= graph.attrs[n].degree_centrality[2]

\* C20: on a store with zero nodes (never built, or built from empty input)
\* get_graph_statistics() does not raise and returns num_nodes = 0, num_edges = 0,
\* density 0 and default values for the connectivity flag and the component
\* count; a statistics query on that store returns a structured answer.
C20_EmptyGraphStatistics ==
    number_of_nodes(graph) = 0 =>
        /\ ret.op = "get_graph_statistics" =>
               /\ ret.raised = ""
               /\ ret.val.num_nodes = 0
               /\ ret.val.num_edges = 0
               /\ ret.val.density[1] = 0
               /\ ret.val.num_components = 0
        /\ \A out \in process_query(graph, entity_types, entity_embeddings,
                                    "graph statistics").outcomes :
               out.raised = "" /\ out.answer # ""

\* C18: if any metric computation in the metrics pass of a build raises, the
\* exception is caught, build() completes and the whole pass is skipped: no
\* node is left with degree_centrality written by that pass but without
\* pagerank, so after every build each node has either both degree_centrality
\* and pagerank or neither.
C18_MetricsAllOrNone ==
    ret.op = "build_graph" =>
        \A n \in Range(graph.nodes) :
            ("degree_centrality" \in DOMAIN graph.attrs[n]) <=>
                ("pagerank" \in DOMAIN graph.attrs[n])

\* the ids listed in the entity buckets of one extraction result
C21_Entities(x) == UNION {Range(x.entities[i][2]) : i \in 1..Len(x.entities)}

\* the bucket that names id e last, which is the type _add_entities leaves on it
C21_Bucket(x, e) ==
    LET listed == {i \in 1..Len(x.entities) : e \in Range(x.entities[i][2])}
    IN  x.entities[CHOOSE i \in listed : \A j \in listed : j <= i][1]

\* the endpoints of the well-formed relationship records of one extraction result
C21_Endpoints(x) ==
    UNION {{x.relationships[i].source, x.relationships[i].target} :
               i \in {j \in 1..Len(x.relationships) : WellFormed(x.relationships[j])}}

\* C21: a build adds every supplied entity as a node typed by its bucket and
\* every endpoint of a relationship as a node; a node that the build creates
\* for a relationship has type ENTITY, a node that existed before and is only
\* named by relationships keeps its type, and the nodes and edges present
\* before the build are all still there after it, in their places.
C21_BuildOnlyAdds ==
    [][(ret'.op = "build_graph" /\ nbuild' = nbuild + 1) =>
        LET x == Extractions[ret'.arg] IN
        /\ SubSeq(graph'.nodes, 1, Len(graph.nodes)) = graph.nodes
        /\ SubSeq(graph'.edges, 1, Len(graph.edges)) = graph.edges
        /\ \A e \in C21_Entities(x) :
               /\ HasNode(graph', e)
               /\ "type" \in DOMAIN graph'.attrs[e]
               /\ graph'.attrs[e].type = C21_Bucket(x, e)
        /\ ret'.raised = "" => \A n \in C21_Endpoints(x) : HasNode(graph', n)
        /\ \A n \in Range(graph'.nodes) \ C21_Entities(x) :
               /\ "type" \in DOMAIN graph'.attrs[n]
               /\ IF HasNode(graph, n)
                  THEN graph'.attrs[n].type = graph.attrs[n].type
                  ELSE graph'.attrs[n].type = "ENTITY"
    ]_vars

\* a second build whose relationships name the existing PERSON nodes Alice and
\* Bob, after a first build that created Ted for a relationship
C21_Witness ==
    /\ ret.op = "build_graph" /\ ret.arg = 3 /\ ret.raised = "" /\ nbuild = 2
    /\ HasNode(graph, "Ted") /\ graph.attrs["Ted"].type = "ENTITY"
    /\ HasNode(graph, "Alice") /\ graph.attrs["Alice"].type = "PERSON"
    /\ HasNode(graph, "Apple") /\ graph.attrs["Apple"].type = "PRODUCT"

\* C22: get_entity_info(id) returns the empty dict without raising when id is
\* not a node; for a node, neighbors holds exactly its predecessors and its
\* successors, incoming_edges one (source, relation) entry per edge into it and
\* outgoing_edges one (target, relation) entry per edge out of it.
C22_EntityInfo ==
    ret.op = "get_entity_info" =>
        /\ ret.raised = ""
        /\ IF ~HasNode(graph, ret.arg) THEN ret.val = NoAttrs
           ELSE /\ Range(ret.val.neighbors) =
                       Range(predecessors(graph, ret.arg)) \cup Range(successors(graph, ret.arg))
                /\ ret.val.incoming_edges =
                       [k \in 1..Len(in_edges(graph, ret.arg)) |->
                           [source |-> in_edges(graph, ret.arg)[k].source,
                            relation |-> in_edges(graph, ret.arg)[k].data.relation]]
                /\ ret.val.outgoing_edges =
                       [k \in 1..Len(out_edges(graph, ret.arg)) |->
                           [target |-> out_edges(graph, ret.arg)[k].target,
                            relation |-> out_edges(graph, ret.arg)[k].data.relation]]

\* nodes a and b are joined by an edge in one direction or the other
C23_Adjacent(g, a, b) == has_edge(g, a, b) \/ has_edge(g, b, a)

\* the number of parallel edges a -> b in an edge list
C23_Parallel(edges, a, b) ==
    Cardinality({i \in 1..Len(edges) : edges[i].source = a /\ edges[i].target = b})

\* node m is a seed or at most k hops from a seed, edge direction ignored
RECURSIVE C23_Near(_, _, _, _)
C23_Near(g, m, seeds, k) ==
    \/ m \in seeds
    \/ /\ k > 0
       /\ \E x \in Range(g.nodes) : C23_Adjacent(g, x, m) /\ C23_Near(g, x, seeds, k - 1)

\* C23: get_subgraph(ids, depth) returns, without raising, the subgraph induced
\* on exactly the nodes of the graph that are a seed or within depth hops of a
\* seed in either direction: seeds that are not nodes are ignored, depth 0
\* gives the seeds that are nodes, and the edges of the result are all the
\* edges of the graph between included nodes, parallel ones included.
C23_SubgraphInduced ==
    ret.op = "get_subgraph" =>
        LET seeds == ret.arg[1] \cap Range(graph.nodes)
            included == {m \in Range(graph.nodes) : C23_Near(graph, m, seeds, ret.arg[2])}
        IN  /\ ret.raised = ""
            /\ Range(ret.val.nodes) = included
            /\ Len(ret.val.nodes) = Cardinality(included)
            /\ ret.arg[2] = 0 => Range(ret.val.nodes) = seeds
            /\ \A a, b \in Range(graph.nodes) :
                   C23_Parallel(ret.val.edges, a, b) =
                       IF a \in included /\ b \in included
                       THEN C23_Parallel(graph.edges, a, b)
                       ELSE 0
            /\ \A i \in 1..Len(ret.val.edges) :
                   \E j \in 1..Len(graph.edges) : graph.edges[j] = ret.val.edges[i]

\* one hop around Alice and an unknown id in a graph where Bob has two parallel
\* edges to Alice and Ted is two hops away
C23_Witness ==
    /\ ret.op = "get_subgraph" /\ ret.arg = <<{"Alice", "Zed"}, 1>>
    /\ HasNode(graph, "Ted") /\ ~HasNode(ret.val, "Ted")
    /\ HasNode(ret.val, "Bob") /\ HasNode(ret.val, "Acme")
    /\ C23_Parallel(ret.val.edges, "Bob", "Alice") = 2

\* what _semantic_search returns for a query when it runs alone on the built
\* store, whichever of the two calls comes first: the ranking over the index
\* of all nodes
C24_Sequential(query) ==
    {out.data.results : out \in {o \in _semantic_search(graph, <<>>, query) : o.raised = ""}}

\* C24: with no build or import in flight, two concurrent process_query calls
\* never raise, also when the index is empty and one call generates it entry by
\* entry while the other tests or iterates it, and each call returns a result
\* that some sequential execution of the two calls returns.
C24_ConcurrentQueriesSerializable ==
    \A t \in Threads :
        threads[t].pc = "done" =>
            /\ threads[t].raised = ""
            /\ threads[t].results \in C24_Sequential(threads[t].query)

\* C25: the metrics pass of a build writes degree_centrality and pagerank into
\* every node whatever the size of the graph; it writes betweenness_centrality
\* into every node when the graph has fewer than 1000 nodes, and into no node
\* when it has 1000 or more: a node then has the betweenness value it had
\* before the build, or none.
C25_BetweennessUnderGate ==
    [][(ret'.op = "build_graph" /\ ret'.raised = "" /\ number_of_nodes(graph') > 0) =>
        LET size == <<number_of_nodes(graph'), number_of_edges(graph')>> IN
        \A n \in Range(graph'.nodes) :
            /\ "degree_centrality" \in DOMAIN graph'.attrs[n]
            /\ graph'.attrs[n].degree_centrality = <<degree(graph', n), number_of_nodes(graph') - 1>>
                   \/ number_of_nodes(graph') = 1
            /\ "pagerank" \in DOMAIN graph'.attrs[n]
            /\ graph'.attrs[n].pagerank = size
            /\ IF number_of_nodes(graph') < 1000
               THEN /\ "betweenness_centrality" \in DOMAIN graph'.attrs[n]
                    /\ graph'.attrs[n].betweenness_centrality = size
               ELSE IF HasNode(graph, n) /\ "betweenness_centrality" \in DOMAIN graph.attrs[n]
               THEN graph'.attrs[n].betweenness_centrality = graph.attrs[n].betweenness_centrality
               ELSE "betweenness_centrality" \notin DOMAIN graph'.attrs[n]
    ]_vars

\* the build that takes the graph from 999 to exactly 1000 nodes: the new node
\* has degree_centrality and pagerank of this pass and no betweenness
C25_Witness ==
    /\ ret.op = "build_graph" /\ ret.raised = ""
    /\ number_of_nodes(graph) = 1000
    /\ HasNode(graph, "x1")
    /\ graph.attrs["x1"].pagerank = <<1000, number_of_edges(graph)>>
    /\ "degree_centrality" \in DOMAIN graph.attrs["x1"]
    /\ "betweenness_centrality" \notin DOMAIN graph.attrs["x1"]

\* the relationship queries with their spans X and Y, which are exact node ids
C26_Spans == {<<"how is Alice related to Bob", "Alice", "Bob">>,
              <<"How is Acme connected to Ted", "Acme", "Ted">>}

\* C26: for 'how is X related to Y' and 'how is X connected to Y', where X and
\* Y are ids of nodes, the relationship handler resolves its first entity from
\* the span X and its second from the span Y, the text after 'related to' or
\* 'connected to': the resolver is handed these two spans and gives X and Y,
\* and a result that is returned has data.entity1 = X and data.entity2 = Y.
C26_SecondEntityIsSpanAfterTo ==
    \A s \in C26_Spans :
        (/\ ret.op = "process_query" /\ ret.arg = s[1]
         /\ HasNode(graph, s[2]) /\ HasNode(graph, s[3])) =>
            /\ ret.handler = "_find_relationship"
            /\ Len(ret.resolved) = 2
            /\ ret.resolved[1] = [text |-> lower(s[2]), id |-> s[2]]
            /\ ret.resolved[2] = [text |-> lower(s[3]), id |-> s[3]]
            /\ ret.raised = "" =>
                   /\ "entity1" \in DOMAIN ret.val.data /\ ret.val.data.entity1 = s[2]
                   /\ "entity2" \in DOMAIN ret.val.data /\ ret.val.data.entity2 = s[3]

\* the path queries with their spans A and B, which are exact node ids
C27_Spans == {<<"shortest path from alice to ted", "Alice", "Ted">>,
              <<"shortest path from Ted to Alice", "Ted", "Alice">>,
              <<"shortest path between alice and ted", "Alice", "Ted">>}

\* C27: for 'shortest path from A to B' and 'shortest path between A and B',
\* where A and B are ids of nodes, the path handler resolves its first entity
\* to A and its second to B and returns data.path = get_shortest_path(A, B)
\* with data.length its number of hops, whatever the order in which the nodes
\* were added to the graph.
C27_PathBetweenSpans ==
    \A s \in C27_Spans :
        (/\ ret.op = "process_query" /\ ret.arg = s[1]
         /\ HasNode(graph, s[2]) /\ HasNode(graph, s[3])) =>
            /\ ret.handler = "_find_path"
            /\ ret.raised = ""
            /\ Len(ret.resolved) = 2
            /\ ret.resolved[1].id = s[2]
            /\ ret.resolved[2].id = s[3]
            /\ "path" \in DOMAIN ret.val.data
            /\ ret.val.data.path \in get_shortest_path(graph, s[2], s[3])
            /\ ret.val.data.length =
                   IF ret.val.data.path = NoPath THEN None ELSE Len(ret.val.data.path) - 1

\* C28: every id the resolver returns is a node of the current graph, also
\* after an import has replaced the graph while the vectors of the old nodes
\* are still in the embedding index.
C28_ResolvedIsCurrentNode ==
    ret.op = "process_query" =>
        \A i \in 1..Len(ret.resolved) :
            ret.resolved[i].id # None => HasNode(graph, ret.resolved[i].id)

\* the per-type counts of get_graph_statistics, added up over the first k keys
RECURSIVE C29_SumCounts(_, _)
C29_SumCounts(types, k) ==
    IF k = 0 THEN 0
    ELSE Cardinality(types.sets[types.keys[k]]) + C29_SumCounts(types, k - 1)

\* C29: after any build every node of the graph, a node created as ENTITY for
\* a relationship included, is listed in the type index under its type, so
\* that the per-type counts add up to the number of nodes.
C29_TypeIndexCoversNodes ==
    (ret.op = "build_graph" /\ ret.raised = "" /\ nimport = 0) =>
        /\ \A n \in Range(graph.nodes) :
               /\ graph.attrs[n].type \in Range(entity_types.keys)
               /\ n \in entity_types.sets[graph.attrs[n].type]
        /\ C29_SumCounts(entity_types, Len(entity_types.keys)) = number_of_nodes(graph)

\* node n carries a value of metric a that the metrics pass would not compute
\* on the current graph
C30_Stale(n, a) ==
    /\ a \in DOMAIN graph.attrs[n]
    /\ graph.attrs[n][a] # IF a = "degree_centrality" THEN degree_centrality(graph, n)
                           ELSE <<number_of_nodes(graph), number_of_edges(graph)>>

\* C30: after any sequence of builds the metrics of all nodes come from the
\* same, latest pass: for none of degree_centrality, pagerank and
\* betweenness_centrality does one node keep a value computed for an earlier
\* graph while another node has no value, also when a build takes the graph to
\* the gate of 1000 nodes or its metrics pass is skipped after an error.
C30_MetricsFromOnePass ==
    ret.op = "build_graph" =>
        \A a \in {"degree_centrality", "pagerank", "betweenness_centrality"} :
            ~ (/\ \E n \in Range(graph.nodes) : C30_Stale(n, a)
               /\ \E m \in Range(graph.nodes) : a \notin DOMAIN graph.attrs[m])

====
